---- MODULE Spec2Model ----
(***************************************************************************)
(* The per-request execution pipeline of wspowell/spiderweb: Endpoint      *)
(* registration (NewEndpoint) and Endpoint.Execute with its error          *)
(* responder and its recovery boundary.                                    *)
(*                                                                         *)
(* The repository holds two revisions of the endpoint package:             *)
(*   version 1: Execute(ctx *Context)                  src/unnamed/part_001 *)
(*   version 2: Execute(ctx context.Context, Requester) src/unnamed/part_002 *)
(* Both are modelled; `version` says which one an Endpoint runs.           *)
(*                                                                         *)
(* Collaborators (codec, validators, authorizer, handler, error strategy)  *)
(* are user code: each call returns one of the outcomes its signature      *)
(* allows, or panics.  The Requester, the logger and the tracer are taken  *)
(* to return normally.                                                     *)
(***************************************************************************)
EXTENDS Integers, Sequences, FiniteSets, TLC

VARIABLES
    version,          \* which revision of Execute the Endpoint runs
    endpoint,         \* *Endpoint: Config (the clone) and handlerData
    pc,               \* position of the one in-flight Execute call
    ctxErr,           \* ctx.Err(): Nil, "Canceled" or "DeadlineExceeded"
    req,              \* the Requester's request facts
    requestMimeType,  \* local requestMimeType (Nil or a mime type)
    responseMimeType, \* local responseMimeType (Nil or a mime type)
    contentTypeOut,   \* response content type set on the Requester
    headersOut,       \* response headers set on the Requester
    calls,            \* collaborator calls made by this execution, in order
    httpStatus,       \* the named result httpStatus
    responseBody,     \* the named result responseBody
    pending,          \* arguments of the processErrorResponse call under way
    inRecover,        \* the deferred recover function is running
    panicValue,       \* value passed to panic(), "" when none
    panicSite,        \* history: where the first panic of this execution was
                      \* raised: "" (none), "phase" or "errorResponse"
    encoded,          \* history: what encoding the handler's response body gave
                      \* in this execution: "" (not encoded), "bytes", "null"
                      \* or "failed"
    responseFailure,  \* history: the failure the response validator returned in
                      \* this execution (NoErr: none, or not run)
    callerConfig,     \* history: the Config the caller gave to NewEndpoint
    etagCall,         \* a direct call of HandleETag: its arguments and the
                      \* response headers it set
    concurrent,       \* Execute calls in flight together on the one Endpoint:
                      \* their requests, positions, handler instances, results
    errorEncoded,     \* history: what the codec gave for the error payload in the
                      \* last processErrorResponse call of this execution: ""
                      \* (not asked), "bytes" or "failed"
    authStatus,       \* history: the status the authorizer returned with a nil
                      \* error in this execution, 0 when it did not
    lambda            \* one invocation of the lambda wrapper: the clock, the
                      \* parent context, the context made by WithTimeout, the
                      \* task that waits for it, and the runner

vars == <<version, endpoint, pc, ctxErr, req, requestMimeType, responseMimeType,
          contentTypeOut, headersOut, calls, httpStatus, responseBody,
          pending, inRecover, panicValue, panicSite,
                   encoded,
                   responseFailure, callerConfig, etagCall,
                   errorEncoded,
          concurrent, authStatus, lambda>>

-----------------------------------------------------------------------------
(* Values *)

Nil == "nil"

MimeJSON == "application/json"
MimeXML == "application/xml"
mimeTypeTextPlain == "text/plain"

StatusOK == 200
StatusCreated == 201
StatusBadRequest == 400
StatusRequestTimeout == 408
StatusUnsupportedMediaType == 415
StatusUnprocessableEntity == 422
StatusInternalServerError == 500

\* error values: errors.Wrap(cause, with) keeps both; errors.New(msg) has no cause
NoErr == [with |-> "", cause |-> ""]
NewErr(msg) == [with |-> msg, cause |-> ""]
Wrap(cause, with) == [with |-> with, cause |-> cause]

\* response bodies: the kind of rendering, the mime type of an encoded body and
\* the text fragments the body shows
NilBody == [kind |-> "nil", mime |-> "", shows |-> {}]
NoPending == [status |-> 0, err |-> NoErr]

-----------------------------------------------------------------------------
(* Bounds of the model: the inputs registration and requests are drawn from *)

\* the Timeout a caller sets when it sets one (seconds)
CustomTimeout == 5
\* the max-age a caching handler declares when it declares one
CustomMaxAge == 300

\* resource keys a handler type may declare and a Config may hold
ResourceKeys == {"db"}
\* values of the Content-Type and Accept request headers ("" is absent)
HeaderValues == {"", MimeJSON, MimeXML}
\* values a collaborator passes to panic()
PanicValues == {"boom"}
\* statuses the authorizer returns with an error, and with a nil error
AuthErrStatuses == {401, 403}
AuthOkStatuses == {StatusOK, 401}
\* statuses the handler returns with a nil error, and with an error
HandleOkStatuses == {StatusOK, StatusCreated}
HandleErrStatuses == {StatusUnprocessableEntity}
\* statuses a caller-supplied error strategy maps a status to, besides itself
RemappedStatuses == {502}

\* the Config values a caller hands to NewEndpoint; Nil (for the registry and the
\* resource map: empty) is "not set".  A custom Timeout is tried with the other
\* cloned fields left unset; a caller that supplies optional collaborators
\* (validators, the Auther of version 1) supplies all of them
CallerConfigs ==
    {c \in [ErrorHandler : {Nil, "custom"},
            Auther : {Nil, "auther"},
            RequestValidator : {Nil, "validator"},
            ResponseValidator : {Nil, "validator"},
            MimeTypeHandlers : {{}, {MimeXML}},
            Resources : SUBSET ResourceKeys,
            Timeout : {0, CustomTimeout}] :
        /\ c.Timeout # 0 =>
              (c.ErrorHandler = Nil /\ c.MimeTypeHandlers = {} /\ c.Resources = {})
        /\ (c.RequestValidator = Nil) = (c.ResponseValidator = Nil)
        /\ (c.Auther = Nil) = (c.RequestValidator = Nil)}

\* the handler types registered: what newHandlerTypeData finds in the struct tags.
\* A body field names its mime type (mime=application/json); the auth field and
\* the caching options exist in version 2 only
HandlerTypes(v) ==
    {h \in [hasRequestBody : BOOLEAN, hasResponseBody : BOOLEAN,
            shouldValidateRequest : BOOLEAN, shouldValidateResponse : BOOLEAN,
            requestMimeTypes : {{}, {MimeJSON}},
            responseMimeTypes : {{}, {MimeJSON}},
            resources : SUBSET ResourceKeys,
            auth : {Nil, "authorizer", "other"},
            eTagEnabled : BOOLEAN, maxAgeSeconds : {0, CustomMaxAge}] :
        /\ h.shouldValidateRequest => h.hasRequestBody
        /\ h.shouldValidateResponse => h.hasResponseBody
        /\ h.requestMimeTypes = IF h.hasRequestBody THEN {MimeJSON} ELSE {}
        /\ h.responseMimeTypes = IF h.hasResponseBody THEN {MimeJSON} ELSE {}
        /\ ~h.eTagEnabled => h.maxAgeSeconds = 0
        /\ (h.hasRequestBody /\ h.hasResponseBody)
              => (h.shouldValidateRequest = h.shouldValidateResponse)
        /\ v = 1 => (h.auth = Nil /\ ~h.eTagEnabled)}

-----------------------------------------------------------------------------
(* Registration *)

\* NewMimeTypeHandlers(): the registry of the known mime types
NewMimeTypeHandlers == {MimeJSON}

\* MimeTypeHandlers.Get(contentType, allowedSubset): exact match in the registry,
\* restricted to the handler's subset when the handler names one
Get(registry, contentType, allowed) ==
    IF contentType \in registry /\ (allowed = {} \/ contentType \in allowed)
    THEN contentType ELSE Nil

\* NewEndpoint of version 1: the clone takes ErrorHandler, MimeTypeHandlers,
\* Resources and Timeout from the caller's Config, with defaults
ConfigClone1(config) ==
    [ErrorHandler |-> IF config.ErrorHandler = Nil THEN "default" ELSE config.ErrorHandler,
     Auther |-> Nil,
     RequestValidator |-> Nil,
     ResponseValidator |-> Nil,
     MimeTypeHandlers |-> IF config.MimeTypeHandlers = {} THEN NewMimeTypeHandlers
                          ELSE config.MimeTypeHandlers,
     Resources |-> config.Resources,
     Timeout |-> IF config.Timeout = 0 THEN 30 ELSE config.Timeout]

\* a clone that copies the caller's fields and fills in no default
ConfigCloneWithoutDefaults(config) ==
    [ErrorHandler |-> config.ErrorHandler,
     Auther |-> Nil,
     RequestValidator |-> Nil,
     ResponseValidator |-> Nil,
     MimeTypeHandlers |-> config.MimeTypeHandlers,
     Resources |-> config.Resources,
     Timeout |-> config.Timeout]

\* NewEndpoint of version 2: as version 1, with the caller's mime handlers added
\* to the known ones (Config has no Auther field in this version)
ConfigClone2(config) ==
    [ErrorHandler |-> IF config.ErrorHandler = Nil THEN "default" ELSE config.ErrorHandler,
     Auther |-> Nil,
     RequestValidator |-> Nil,
     ResponseValidator |-> Nil,
     MimeTypeHandlers |-> IF config.MimeTypeHandlers = {} THEN NewMimeTypeHandlers
                          ELSE NewMimeTypeHandlers \cup config.MimeTypeHandlers,
     Resources |-> config.Resources,
     Timeout |-> IF config.Timeout = 0 THEN 30 ELSE config.Timeout]

\* the clone's Resources is the caller's map itself when the caller set one
SharesResources(v, config) == config.Resources # {}

\* the clone's MimeTypeHandlers is the caller's map itself in version 1; version 2
\* copies the caller's entries into a new registry
SharesMimeTypeHandlers(v, config) == v = 1 /\ config.MimeTypeHandlers # {}

NoEndpoint == [registered |-> FALSE]

NewEndpoint(config, handler) ==
    [registered |-> TRUE,
     Config |-> IF version = 1 THEN ConfigClone1(config) ELSE ConfigClone2(config),
     handlerData |-> handler]

-----------------------------------------------------------------------------
(* The execution context *)

\* ShouldContinue: the request has been neither cancelled nor timed out
ShouldContinue(err) == ~(err = "Canceled" \/ err = "DeadlineExceeded")

\* a variant without the poll at the handler boundary
PollsBeforeResponseOnly(v, phase) == phase = "response"

\* a variant without the poll after the handler
PollsBeforeHandleOnly(v, phase) == phase = "handle"

\* the phase boundaries at which Execute polls ShouldContinue
PollsBefore(v, phase) ==
    IF v = 1 THEN phase \in {"auth", "bind", "request", "handle", "response"}
    ELSE phase \in {"handle", "response"}

\* the error handed to the error responder on a timeout
ErrRequestTimeout(v) ==
    IF v = 1 THEN NewErr("ErrorRequestTimeout") ELSE NewErr("ErrRequestTimeout")

\* the order of the phases after negotiation; "return" is the success return
PhaseAfter(v, phase) ==
    IF v = 1
    THEN CASE phase = "mime" -> "auth"
           [] phase = "auth" -> "bind"
           [] phase = "bind" -> "request"
           [] phase = "request" -> "handle"
           [] phase = "handle" -> "response"
           [] OTHER -> "return"
    ELSE CASE phase = "mime" -> "bind"
           [] phase = "bind" -> "auth"
           [] phase = "auth" -> "request"
           [] phase = "request" -> "handle"
           [] phase = "handle" -> "response"
           [] phase = "response" -> "etag"
           [] OTHER -> "return"

-----------------------------------------------------------------------------
(* Outcomes of one step of Execute: where it goes on, the error response it *)
(* asks for, the value it panics with, the calls it made, the httpStatus it *)
(* leaves                                                                   *)

GoOn(phase, cs, st) ==
    [pc |-> phase, pending |-> NoPending, panic |-> "", calls |-> cs, status |-> st,
     body |-> NilBody, headers |-> {}, encoded |-> "",
     failure |-> NoErr]
Fail(status, err, cs, st) ==
    [pc |-> "error", pending |-> [status |-> status, err |-> err], panic |-> "",
     calls |-> cs, status |-> st, body |-> NilBody, headers |-> {}, encoded |-> "",
     failure |-> NoErr]
Panics(cs, st) ==
    {[pc |-> "recover", pending |-> NoPending, panic |-> p, calls |-> cs, status |-> st,
      body |-> NilBody, headers |-> {}, encoded |-> "",
     failure |-> NoErr] : p \in PanicValues}
Succeed(phase, cs, st, body, headers) ==
    [pc |-> phase, pending |-> NoPending, panic |-> "", calls |-> cs, status |-> st,
     body |-> body, headers |-> headers, encoded |-> "",
     failure |-> NoErr]

-----------------------------------------------------------------------------
(* Content negotiation *)

\* the error of a failed negotiation
ErrInvalidMimeType(v, msg) ==
    IF v = 1 THEN NewErr(msg) ELSE Wrap("ErrInvalidMimeType", msg)

\* a variant that negotiates Accept only for a handler with a response body
NegotiatesAcceptForResponseBody(v, hd) == hd.hasResponseBody

\* whether Execute negotiates the Accept header for this handler
NegotiatesAccept(v, hd) == IF v = 1 THEN hd.hasResponseBody ELSE TRUE

\* the "Content-Type and Accept" block of Execute: the two mime type locals and the
\* status and error of a failure (status 0: negotiated)
Negotiate(v, hd, registry, contentType, accept) ==
    LET requestMime == IF hd.hasRequestBody
                       THEN Get(registry, contentType, hd.requestMimeTypes) ELSE Nil
        responseMime == IF NegotiatesAccept(v, hd)
                        THEN Get(registry, accept, hd.responseMimeTypes) ELSE Nil
        failed(msg, rq) == [status |-> StatusUnsupportedMediaType,
                            err |-> ErrInvalidMimeType(v, msg),
                            requestMimeType |-> rq, responseMimeType |-> Nil]
    IN  IF hd.hasRequestBody /\ contentType = ""
        THEN failed("Content-Type MIME type not provided", Nil)
        ELSE IF hd.hasRequestBody /\ requestMime = Nil
        THEN failed("Content-Type MIME type not supported", Nil)
        ELSE IF NegotiatesAccept(v, hd) /\ accept = ""
        THEN failed("Accept MIME type not provided", requestMime)
        ELSE IF NegotiatesAccept(v, hd) /\ responseMime = Nil
        THEN failed("Accept MIME type not supported", requestMime)
        ELSE [status |-> 0, err |-> NoErr,
              requestMimeType |-> requestMime, responseMimeType |-> responseMime]

-----------------------------------------------------------------------------
(* The error responder *)

\* fmt.Sprintf("%v", err): the message of the outermost error
Format(err) == {err.with}

\* what an error value carries besides its message
Causes(err) == IF err.cause = "" THEN {} ELSE {err.cause}

\* fmt.Sprintf(verb, err): %v and %s print the message, %#v prints the value
\* with everything it holds
Sprintf(verb, err) ==
    IF verb = "%#v" THEN Format(err) \cup Causes(err) ELSE Format(err)

TextBody(err) == [kind |-> "text", mime |-> mimeTypeTextPlain, shows |-> Format(err)]
Encoded(mime, shows) == [kind |-> "encoded", mime |-> mime, shows |-> shows]

\* a default strategy that answers every error as an internal error
HandleErrorCatchAll(handler, status, err) ==
    IF handler = "default"
    THEN {[status |-> StatusInternalServerError, shows |-> Format(err)]}
    ELSE {[status |-> s, shows |-> sh] :
            s \in {status} \cup RemappedStatuses,
            sh \in {Format(err), Format(err) \cup Causes(err)}}

\* ErrorHandler.HandleError(ctx, httpStatus, err): the default strategy keeps the
\* status and renders the message; a caller's strategy returns any status and any
\* rendering of the error it was given
HandleError(handler, status, err) ==
    IF handler = "default"
    THEN {[status |-> status, shows |-> Format(err)]}
    ELSE {[status |-> s, shows |-> sh] :
            s \in {status} \cup RemappedStatuses,
            sh \in {Format(err), Format(err) \cup Causes(err)}}

\* a codec call may fail or panic, except the known JSON codec on the default
\* strategy's payload
CodecMayFail(handler, mime) == ~(handler = "default" /\ mime = MimeJSON)

\* the error rendered when the codec fails on the error payload
ErrEncodeFailure(v) ==
    IF v = 1 THEN NewErr("Internal server error")
    ELSE Wrap("marshal failure", "ErrInternalServerError")

\* an error responder that asks the strategy for the status even when no response
\* type was negotiated
processErrorResponseAlwaysMapped(v, config, mime, status, err) ==
    IF mime = Nil
    THEN {[panic |-> "", status |-> p.status, body |-> TextBody(err),
           contentType |-> mimeTypeTextPlain, calls |-> <<"HandleError">>,
           encoded |-> ""] : p \in HandleError("custom", status, err)}
    ELSE {[panic |-> "", status |-> p.status, body |-> Encoded(mime, p.shows),
           contentType |-> Nil, calls |-> <<"HandleError", "Marshal">>,
           encoded |-> "bytes"] :
             p \in HandleError(config.ErrorHandler, status, err)}

\* an error responder that keeps the status it was given when the codec fails
processErrorResponseKeepingStatus(v, config, mime, status, err) ==
    IF mime = Nil
    THEN {[panic |-> "", status |-> status, body |-> TextBody(err),
           contentType |-> mimeTypeTextPlain, calls |-> <<>>, encoded |-> ""]}
    ELSE {[panic |-> "", status |-> p.status, body |-> Encoded(mime, p.shows),
           contentType |-> Nil, calls |-> <<"HandleError", "Marshal">>,
           encoded |-> "bytes"] :
             p \in HandleError(config.ErrorHandler, status, err)}
         \cup
         (IF CodecMayFail(config.ErrorHandler, mime)
          THEN {[panic |-> "", status |-> status,
                 body |-> TextBody(ErrEncodeFailure(v)),
                 contentType |-> mimeTypeTextPlain,
                 calls |-> <<"HandleError", "Marshal">>, encoded |-> "failed"]}
          ELSE {})

\* an error responder that answers in plain text whenever the status is 500
processErrorResponsePlainOn500(v, config, mime, status, err) ==
    IF mime = Nil \/ status = StatusInternalServerError
    THEN {[panic |-> "", status |-> status, body |-> TextBody(err),
           contentType |-> mimeTypeTextPlain, calls |-> <<>>, encoded |-> ""]}
    ELSE {[panic |-> "", status |-> p.status, body |-> Encoded(mime, p.shows),
           contentType |-> Nil, calls |-> <<"HandleError", "Marshal">>,
           encoded |-> "bytes"] :
             p \in HandleError(config.ErrorHandler, status, err)}

\* processErrorResponse: every way the call can end. panic = "" is a return of
\* (status, body); contentType is the response content type it sets (Nil: none set)
processErrorResponse(v, config, mime, status, err) ==
    IF mime = Nil
    THEN {[panic |-> "", status |-> status,
           body |-> [TextBody(err) EXCEPT
                       !.shows = Sprintf(IF v = 1 THEN "%#v" ELSE "%v", err)],
           contentType |-> mimeTypeTextPlain, calls |-> <<>>, encoded |-> ""]}
    ELSE {[panic |-> "", status |-> p.status, body |-> Encoded(mime, p.shows),
           contentType |-> Nil, calls |-> <<"HandleError", "Marshal">>,
           encoded |-> "bytes"] :
             p \in HandleError(config.ErrorHandler, status, err)}
         \cup
         (IF CodecMayFail(config.ErrorHandler, mime)
          THEN {[panic |-> "", status |-> StatusInternalServerError,
                 body |-> TextBody(ErrEncodeFailure(v)),
                 contentType |-> mimeTypeTextPlain,
                 calls |-> <<"HandleError", "Marshal">>, encoded |-> "failed"]}
               \cup
               {[panic |-> pv, status |-> 0, body |-> NilBody, contentType |-> Nil,
                 calls |-> <<"HandleError", "Marshal">>, encoded |-> ""] :
                   pv \in PanicValues}
          ELSE {})
         \cup
         (IF config.ErrorHandler # "default"
          THEN {[panic |-> pv, status |-> 0, body |-> NilBody, contentType |-> Nil,
                 calls |-> <<"HandleError">>, encoded |-> ""] : pv \in PanicValues}
          ELSE {})

\* the error the deferred recover function hands to processErrorResponse
RecoveredErr(v, value) ==
    IF v = 1 THEN NewErr("ErrorPanic") ELSE Wrap(value, "ErrInternalServerError")

-----------------------------------------------------------------------------
(* The phases of Execute: every way each can end *)

\* statuses a validator returns with a failure, and without
ValidatorFailStatuses == {StatusBadRequest, StatusUnprocessableEntity}
ValidatorOkStatuses == {StatusOK}

ErrInternalServerError(v, cause, name1) ==
    IF v = 1 THEN NewErr(name1) ELSE Wrap(cause, "ErrInternalServerError")
ErrBadRequest(v, cause, name1) ==
    IF v = 1 THEN NewErr(name1) ELSE Wrap(cause, "ErrBadRequest")

\* handlerData.setResources: fails on a declared resource the Config does not hold
setResources(hd, resources) == hd.resources \subseteq resources

\* a variant that classes every binder error as an internal error
BindAllInternal(v, hd, config, st) ==
    LET alloc == <<"allocateHandler", "setResources">>
        path == alloc \o <<"setPathParameters">>
        query == path \o <<"setQueryParameters">>
    IN  {Fail(StatusInternalServerError,
              ErrInternalServerError(v, "resource not found", ""), alloc, st),
         Fail(StatusInternalServerError, ErrBadRequest(v, "path parameter", ""), path, st),
         Fail(StatusInternalServerError, ErrBadRequest(v, "query parameter", ""), query, st),
         GoOn(PhaseAfter(v, "bind"), query, st)}
        \cup Panics(alloc, st)

\* handler allocation and binding.  Version 2 returns the binder's errors; in
\* version 1 the binder returns nothing.  Whether a path or query value coerces
\* is a fact of the request
Bind(v, hd, config, st) ==
    LET alloc == <<"allocateHandler", "setResources">>
        path == alloc \o <<"setPathParameters">>
        query == path \o <<"setQueryParameters">>
    IN  IF v = 1
        THEN {GoOn(PhaseAfter(v, "bind"), query, st)} \cup Panics(alloc, st)
        ELSE IF ~setResources(hd, config.Resources)
        THEN {Fail(StatusInternalServerError,
                   ErrInternalServerError(v, "resource not found", ""), alloc, st)}
        ELSE {Fail(StatusBadRequest, ErrBadRequest(v, "path parameter", ""), path, st),
              Fail(StatusBadRequest, ErrBadRequest(v, "query parameter", ""), query, st),
              GoOn(PhaseAfter(v, "bind"), query, st)}
             \cup Panics(alloc, st)

\* the authentication capability: Config.Auther in version 1, the handler's auth
\* field in version 2
Authorizer(v, hd, config) == IF v = 1 THEN config.Auther ELSE hd.auth

\* a variant that reports every authentication failure as 401
AuthenticateUnauthorized(v, hd, config, st) ==
    LET auth == Authorizer(v, hd, config)
        name == IF v = 1 THEN "Auth" ELSE "Authorization"
    IN  IF auth = Nil
        THEN {GoOn(PhaseAfter(v, "auth"), <<>>, st)}
        ELSE {Fail(401, NewErr("unauthorized"), <<name>>, s) : s \in AuthErrStatuses}
             \cup {GoOn(PhaseAfter(v, "auth"), <<name>>, s) : s \in AuthOkStatuses}
             \cup Panics(<<name>>, st)

\* a variant that also stops on a status of 400 or more returned with a nil error
AuthenticateByStatus(v, hd, config, st) ==
    LET auth == Authorizer(v, hd, config)
        name == IF v = 1 THEN "Auth" ELSE "Authorization"
    IN  IF auth = Nil
        THEN {GoOn(PhaseAfter(v, "auth"), <<>>, st)}
        ELSE {Fail(s, NewErr("unauthorized"), <<name>>, s) : s \in AuthErrStatuses}
             \cup {IF s >= StatusBadRequest THEN Fail(s, NoErr, <<name>>, s)
                   ELSE GoOn(PhaseAfter(v, "auth"), <<name>>, s) : s \in AuthOkStatuses}
             \cup Panics(<<name>>, st)

\* authentication: the authorizer's status and error go to the error responder
Authenticate(v, hd, config, st) ==
    LET auth == Authorizer(v, hd, config)
        name == IF v = 1 THEN "Auth" ELSE "Authorization"
    IN  IF auth = Nil
        THEN {GoOn(PhaseAfter(v, "auth"), <<>>, st)}
        ELSE IF v = 2 /\ auth = "other"
        THEN {Fail(StatusInternalServerError, ErrInternalServerError(v, "", ""), <<>>, st)}
        ELSE {Fail(s, NewErr("unauthorized"), <<name>>, s) : s \in AuthErrStatuses}
             \cup {GoOn(PhaseAfter(v, "auth"), <<name>>, s) : s \in AuthOkStatuses}
             \cup Panics(<<name>>, st)

\* a variant that classes a decode failure as an internal error
RequestBodyDecodeInternal(v, hd, config, st) ==
    IF ~hd.hasRequestBody
    THEN {GoOn(PhaseAfter(v, "request"), <<>>, st)}
    ELSE {Fail(StatusInternalServerError,
               ErrBadRequest(v, "unmarshal failure", "ErrorRequestBodyUnmarshalFailure"),
               <<"Unmarshal">>, st),
          GoOn(PhaseAfter(v, "request"), <<"Unmarshal">>, st)}

\* the request body: setHandlerRequestBody, then the request validator
RequestBody(v, hd, config, st) ==
    LET decode == <<"Unmarshal">>
        validate == decode \o <<"ValidateRequest">>
    IN  IF ~hd.hasRequestBody
        THEN {GoOn(PhaseAfter(v, "request"), <<>>, st)}
        ELSE {Fail(StatusBadRequest,
                   ErrBadRequest(v, "unmarshal failure", "ErrorRequestBodyUnmarshalFailure"),
                   decode, st)}
             \cup Panics(decode, st)
             \cup (IF config.RequestValidator # Nil /\ hd.shouldValidateRequest
                   THEN {Fail(s, NewErr("invalid request"), validate, s) :
                            s \in ValidatorFailStatuses}
                        \cup {GoOn(PhaseAfter(v, "request"), validate, s) :
                                s \in ValidatorOkStatuses}
                        \cup Panics(validate, st)
                   ELSE {GoOn(PhaseAfter(v, "request"), decode, st)})

\* a handler phase that reports the handler's error as an internal error
HandleErrInternal(v, st) ==
    {GoOn(PhaseAfter(v, "handle"), <<"Handle">>, s) : s \in HandleOkStatuses}
    \cup {Fail(StatusInternalServerError, NewErr("handler error"), <<"Handle">>,
                StatusInternalServerError)}
    \cup Panics(<<"Handle">>, st)

\* handlerAlloc.handler.Handle(ctx)
Handle(v, st) ==
    {GoOn(PhaseAfter(v, "handle"), <<"Handle">>, s) : s \in HandleOkStatuses}
    \cup {Fail(s, NewErr("handler error"), <<"Handle">>, s) : s \in HandleErrStatuses}
    \cup Panics(<<"Handle">>, st)

\* the error returned for a body that encodes to "null": the constant
\* ErrorResponseBodyNull in version 1; in version 2 errors.Wrap(err,
\* ErrInternalServerError) of the nil err of the successful Marshal, which the
\* errors library returns as an error or, wrapping nothing, as nil
ErrResponseBodyNull(v) ==
    IF v = 1 THEN {NewErr("ErrorResponseBodyNull")}
    ELSE {Wrap("", "ErrInternalServerError"), NoErr}

\* getHandlerResponseBody: the (body, error) pairs it returns, with what the
\* codec's Marshal gave (encoded: "" for a handler without a response body)
getHandlerResponseBody(v, hd, mime) ==
    IF hd.hasResponseBody
    THEN {[body |-> Encoded(mime, {"response"}), err |-> NoErr, encoded |-> "bytes"],
          [body |-> NilBody, encoded |-> "failed",
           err |-> ErrInternalServerError(v, "marshal failure",
                                          "ErrorResponseBodyMarshalFailure")]}
         \cup {[body |-> NilBody, err |-> e, encoded |-> "null"] :
                 e \in ErrResponseBodyNull(v)}
    ELSE {[body |-> NilBody, err |-> NoErr, encoded |-> ""]}

\* a variant that hands every successful response to the ETag handling
AfterResponseAlways(v, hd) ==
    IF v = 2 THEN "etag" ELSE "return"

\* the phase after the response body: ETag handling when the handler enables it
AfterResponse(v, hd) ==
    IF v = 2 /\ hd.eTagEnabled THEN "etag" ELSE "return"

\* the response validator's verdict on a failure: version 2 tests the validator's
\* failure, version 1 tests the error of the encoding, which is nil here
ResponseValidationFails(v, failure, err) ==
    IF v = 1 THEN err # NoErr ELSE failure # NoErr

\* the response body: getHandlerResponseBody, then the response validator
ResponseBody(v, hd, config, mime, st) ==
    LET encode == IF hd.hasResponseBody THEN <<"Marshal">> ELSE <<>>
        validate == encode \o <<"ValidateResponse">>
        next == AfterResponse(v, hd)
    IN  UNION {
         {[o EXCEPT !.encoded = r.encoded] : o \in
          IF r.err # NoErr
          THEN {Fail(StatusInternalServerError, r.err, encode, st)}
          ELSE IF config.ResponseValidator # Nil /\ hd.shouldValidateResponse
          THEN {[IF ResponseValidationFails(v, failure, r.err)
                 THEN Fail(s, failure, validate, s)
                 ELSE Succeed(next, validate, s, r.body, {})
                 EXCEPT !.failure = failure] :
                  s \in ValidatorFailStatuses,
                  failure \in {NewErr("invalid response")}}
               \cup {Succeed(next, validate, s, r.body, {}) : s \in ValidatorOkStatuses}
               \cup Panics(validate, st)
          ELSE {Succeed(next, encode, st, r.body, {})}} :
          r \in getHandlerResponseBody(v, hd, mime)}
        \cup (IF hd.hasResponseBody THEN Panics(encode, st) ELSE {})

-----------------------------------------------------------------------------
(* Conditional requests *)

StatusNotModified == 304
StatusPreconditionFailed == 412

noCache == "no-cache"
comma == ","
anything == "*"

\* the fingerprint of a body: its length and its SHA-256 digest, one value per
\* distinct body, as the bytes of the header value
ETagValue(body) ==
    CASE body.kind = "encoded" /\ body.mime = MimeJSON -> <<"j">>
      [] body.kind = "encoded" /\ body.mime = MimeXML -> <<"x">>
      [] OTHER -> <<"t">>

\* the bytes of an If-None-Match or If-Match request header, up to MaxHeaderLen
\* of them; <<>> is an absent header
MaxHeaderLen == 3
HeaderChars == {" ", comma, anything, "j"}
RawHeaders == UNION {[1..n -> HeaderChars] : n \in 0..MaxHeaderLen}

\* the conditional headers a request to an endpoint carries
ETagHeaders == {h \in RawHeaders : Len(h) <= 1}

\* the directives of the request's Cache-Control header
CacheControls == {<<>>, <<"no-store">>, <<"no-store", noCache>>}

\* bytes.Contains(cacheControl, directive)
Contains(cacheControl, directive) ==
    \E i \in 1..Len(cacheControl) : cacheControl[i] = directive

\* bytes.Split(s, sep): the pieces of s between the separators
RECURSIVE Split(_, _)
Split(s, sep) ==
    IF \A i \in 1..Len(s) : s[i] # sep
    THEN <<s>>
    ELSE LET i == CHOOSE k \in 1..Len(s) :
                      s[k] = sep /\ \A m \in 1..(k - 1) : s[m] # sep
         IN  <<SubSeq(s, 1, i - 1)>> \o Split(SubSeq(s, i + 1, Len(s)), sep)

\* bytes.TrimSpace(tag)
TrimSpace(tag) ==
    LET inked == {i \in 1..Len(tag) : tag[i] # " "}
    IN  IF inked = {}
        THEN <<>>
        ELSE SubSeq(tag, CHOOSE i \in inked : \A k \in inked : i <= k,
                         CHOOSE i \in inked : \A k \in inked : i >= k)

\* tags kept as they were split, untrimmed
keepTags(tags) == tags

trimTags(tags) == [index \in DOMAIN tags |-> TrimSpace(tags[index])]

checkEtagNoneMatch(etagsToNoneMatch, eTagValue) ==
    \E i \in 1..Len(etagsToNoneMatch) :
        etagsToNoneMatch[i] = <<anything>> \/ etagsToNoneMatch[i] = eTagValue

\* a precondition check that knows no wildcard
checkEtagMatchExact(etagsToMatch, eTagValue) ==
    ~\E i \in 1..Len(etagsToMatch) : etagsToMatch[i] = eTagValue

\* a precondition check that a wildcard always fails
checkEtagMatchWildcardFails(etagsToMatch, eTagValue) ==
    \/ \E i \in 1..Len(etagsToMatch) : etagsToMatch[i] = <<anything>>
    \/ ~\E i \in 1..Len(etagsToMatch) : etagsToMatch[i] = eTagValue

checkEtagMatch(etagsToMatch, eTagValue) ==
    ~\E i \in 1..Len(etagsToMatch) :
        etagsToMatch[i] = <<anything>> \/ etagsToMatch[i] = eTagValue

\* a freshness check that looks at If-Match first
isCacheFreshIfMatchFirst(ifNoneMatch, ifMatch, eTagValue) ==
    IF Len(ifMatch) # 0
    THEN [status |-> StatusPreconditionFailed,
          ok |-> checkEtagMatch(trimTags(Split(ifMatch, comma)), eTagValue)]
    ELSE [status |-> StatusNotModified,
          ok |-> checkEtagNoneMatch(trimTags(Split(ifNoneMatch, comma)), eTagValue)]

isCacheFresh(ifNoneMatch, ifMatch, eTagValue) ==
    IF Len(ifNoneMatch) # 0
    THEN [status |-> StatusNotModified,
          ok |-> checkEtagNoneMatch(trimTags(Split(ifNoneMatch, comma)), eTagValue)]
    ELSE [status |-> StatusPreconditionFailed,
          ok |-> checkEtagMatch(trimTags(Split(ifMatch, comma)), eTagValue)]

\* the response headers HandleETag sets on the Requester; <<>> is a header not set
NoETagHeaders == [ETag |-> <<>>, CacheControl |-> <<>>]

\* a skip test that does not look at the request's Cache-Control header
ETagSkippedDespiteNoCache(ifNoneMatch, ifMatch, cacheControl, status, body) ==
    \/ ~(status >= 200 /\ status < 300)
    \/ body.kind = "nil"
    \/ (Len(ifNoneMatch) = 0 /\ Len(ifMatch) = 0)

\* HandleETag's test for returning the status and body as they are
ETagSkipped(ifNoneMatch, ifMatch, cacheControl, status, body) ==
    \/ ~(status >= 200 /\ status < 300)
    \/ body.kind = "nil"
    \/ Contains(cacheControl, noCache)
    \/ (Len(ifNoneMatch) = 0 /\ Len(ifMatch) = 0)

\* a HandleETag whose tag also depends on the max-age
HandleETagTaggingMaxAge(ifNoneMatch, ifMatch, cacheControl, maxAgeSeconds, status, body) ==
    IF ETagSkipped(ifNoneMatch, ifMatch, cacheControl, status, body)
    THEN [status |-> status, body |-> body, headers |-> NoETagHeaders]
    ELSE LET eTagValue == ETagValue(body) \o <<maxAgeSeconds>>
             fresh == isCacheFresh(ifNoneMatch, ifMatch, eTagValue)
             headers == [ETag |-> eTagValue,
                         CacheControl |-> IF maxAgeSeconds # 0
                                          THEN <<"max-age=", maxAgeSeconds>>
                                          ELSE <<>>]
         IN  IF fresh.ok
             THEN [status |-> fresh.status, body |-> NilBody, headers |-> headers]
             ELSE [status |-> status, body |-> body, headers |-> headers]

\* HandleETag: the status and body it returns and the response headers it sets
HandleETag(ifNoneMatch, ifMatch, cacheControl, maxAgeSeconds, status, body) ==
    IF ETagSkipped(ifNoneMatch, ifMatch, cacheControl, status, body)
    THEN [status |-> status, body |-> body, headers |-> NoETagHeaders]
    ELSE LET eTagValue == ETagValue(body)
             fresh == isCacheFresh(ifNoneMatch, ifMatch, eTagValue)
             headers == [ETag |-> eTagValue,
                         CacheControl |-> IF maxAgeSeconds # 0
                                          THEN <<"max-age=", maxAgeSeconds>>
                                          ELSE <<>>]
         IN  IF fresh.ok
             THEN [status |-> fresh.status, body |-> NilBody, headers |-> headers]
             ELSE [status |-> status, body |-> body, headers |-> headers]

\* the names of the response headers set
HeaderNames(headers) ==
    (IF headers.ETag # <<>> THEN {"ETag"} ELSE {})
    \cup (IF headers.CacheControl # <<>> THEN {"Cache-Control"} ELSE {})

\* the ETag phase of Execute, over the conditional headers a request may carry
ETag(hd, st, body) ==
    {LET r == HandleETag(inm, im, cc, hd.maxAgeSeconds, st, body)
     IN  Succeed("return", <<"HandleETag">>, r.status, r.body, HeaderNames(r.headers)) :
        inm \in ETagHeaders, im \in ETagHeaders, cc \in {<<>>, <<noCache>>}}

\* a call of HandleETag on its own: what it was given and the headers it set
NoETagCall ==
    [ifNoneMatch |-> <<>>, ifMatch |-> <<>>, cacheControl |-> <<>>,
     maxAgeSeconds |-> 0, httpStatus |-> 0, responseBody |-> NilBody,
     headers |-> NoETagHeaders]

\* the two conditional headers of one request, MaxHeaderLen bytes between them
ConditionalHeaders ==
    {h \in RawHeaders \X RawHeaders : Len(h[1]) + Len(h[2]) <= MaxHeaderLen}

ETagCalls ==
    {[ifNoneMatch |-> h[1], ifMatch |-> h[2], cacheControl |-> cc,
      maxAgeSeconds |-> maxAge, httpStatus |-> status, responseBody |-> body,
      headers |-> NoETagHeaders] :
        h \in ConditionalHeaders, cc \in CacheControls,
        maxAge \in {-CustomMaxAge, 0, CustomMaxAge},
        status \in {StatusOK, StatusBadRequest},
        body \in {NilBody, Encoded(MimeJSON, {"response"}),
                  Encoded(MimeXML, {"response"})}}

-----------------------------------------------------------------------------
(* The context of one invocation: its deadline and its cancellation *)

\* the largest Timeout the runner is configured with, the latest time an
\* invocation is entered, and the calls of Context.Cancel one execution makes
MaxTimeout == 2
MaxEntryTime == 1
MaxCancelCalls == 2

\* the clock runs from 0 to the latest deadline an invocation can set
MaxTime == MaxEntryTime + MaxTimeout
\* ctx.Deadline() of a context that has none
NoDeadline == -1

\* a deadline d is before e: a context without deadline is before none
Before(d, e) == d # NoDeadline /\ (e = NoDeadline \/ d < e)

\* close(done): closing a closed channel panics
closeDone(c) ==
    IF c.doneClosed THEN [c EXCEPT !.panicked = TRUE]
    ELSE [c EXCEPT !.doneClosed = TRUE]

\* a cancel function that records the cause and leaves Done open
cancelKeepingDone(c, cause) ==
    IF c.err # Nil THEN c
    ELSE [c EXCEPT !.err = cause,
                   !.timer = IF c.timer = "armed" THEN "stopped" ELSE c.timer]

\* a cancel function that does not look whether the context is already done
cancelUnguarded(c, cause) ==
    closeDone([c EXCEPT !.err = cause,
                        !.timer = IF c.timer = "armed" THEN "stopped" ELSE c.timer])

\* the CancelFunc of the context: the first call records the cause, closes Done
\* and stops the timer; a call on a context already done returns at once
cancel(c, cause) ==
    IF c.err # Nil THEN c
    ELSE closeDone([c EXCEPT !.err = cause,
                             !.timer = IF c.timer = "armed" THEN "stopped" ELSE c.timer])

\* a WithTimeout that sets its own deadline whatever the parent's
WithTimeoutOwnDeadline(c, timeout) ==
    LET child == [c EXCEPT !.deadline = c.now + timeout, !.entered = c.now,
                           !.timeout = timeout]
        linked == IF c.parentErr # Nil THEN cancel(child, c.parentErr) ELSE child
    IN  IF timeout <= 0 THEN cancel(linked, "DeadlineExceeded")
        ELSE IF linked.err = Nil THEN [linked EXCEPT !.timer = "armed"]
        ELSE linked

\* context.WithTimeout(ctx, timeout) at time c.now: a parent deadline that is
\* earlier is kept, and the child is then done when the parent is; otherwise the
\* child gets the deadline now + timeout and a timer, and is done at once when the
\* parent is or when the deadline has already passed
WithTimeout(c, timeout) ==
    LET d == c.now + timeout
        entered == [c EXCEPT !.entered = c.now, !.timeout = timeout]
    IN  IF Before(c.parentDeadline, d)
        THEN LET child == [entered EXCEPT !.deadline = c.parentDeadline]
             IN  IF c.parentErr # Nil THEN cancel(child, c.parentErr) ELSE child
        ELSE LET child == [entered EXCEPT !.deadline = d]
                 linked == IF c.parentErr # Nil THEN cancel(child, c.parentErr)
                           ELSE child
             IN  IF timeout <= 0 THEN cancel(linked, "DeadlineExceeded")
                 ELSE IF linked.err = Nil THEN [linked EXCEPT !.timer = "armed"]
                 ELSE linked

\* a context derived inside the execution (a span, a logger, local values): it
\* has the deadline of the context it is derived from
Derive(deadline) == deadline

\* the places an invocation is entered from: the lambda wrapper, and the server
\* through NewContext
Entries == {"lambda", "server"}

NoLambda ==
    [entry |-> "", now |-> 0, parentDeadline |-> NoDeadline, parentErr |-> Nil,
     timeout |-> 0, entered |-> 0, deadline |-> NoDeadline, err |-> Nil,
     doneClosed |-> FALSE, timer |-> "none", panicked |-> FALSE,
     watcher |-> "none", watcherCancels |-> 0, cancelCalls |-> 0,
     run |-> "entry", runDeadline |-> NoDeadline, timedOut |-> FALSE]

-----------------------------------------------------------------------------
(* Execute calls in flight together *)

MaxConcurrent == 2
ConcurrentCalls == 1..MaxConcurrent

\* what a request carries for the handler: a path value and a body
PathValues == {"a", "b"}
RequestBodies == {"x", "y"}

\* a handler instance as allocated: the zero value of the handler struct
NewHandler == [path |-> "", requestBody |-> "", responseBody |-> <<>>]

NoResult == [status |-> 0, body |-> <<>>, contentType |-> ""]

NoConcurrent ==
    [requests |-> <<>>, at |-> <<>>, handlerAlloc |-> <<>>, instances |-> <<>>,
     results |-> <<>>]

\* handlerData.allocateHandler(): a new instance of the handler type, added to
\* the instances allocated so far
allocateHandler(instances) == Append(instances, NewHandler)

\* a binder that writes into the instance allocated last, by whichever call
LastAllocated(c, handlerAlloc, instances) == Len(instances)

\* handlerAlloc.handlerValue: the instance the call itself allocated
HandlerValue(c, handlerAlloc, instances) == handlerAlloc[c]

\* the response a request gets from a call that runs alone: the handler's status
\* and the encoding of what the handler made of the values bound to it
Alone(request) ==
    [status |-> StatusOK, body |-> <<request.path, request.body>>,
     contentType |-> MimeJSON]

(* Actions *)

Init ==
    /\ version \in {1, 2}
    /\ endpoint = NoEndpoint
    /\ pc = "unregistered"
    /\ ctxErr = Nil
    /\ req = [contentType |-> "", accept |-> ""]
    /\ requestMimeType = Nil
    /\ responseMimeType = Nil
    /\ contentTypeOut = ""
    /\ headersOut = {}
    /\ calls = <<>>
    /\ httpStatus = 0
    /\ responseBody = NilBody
    /\ pending = NoPending
    /\ inRecover = FALSE
    /\ panicValue = ""
    /\ panicSite = ""
    /\ encoded = ""
    /\ responseFailure = NoErr
    /\ callerConfig = Nil
    /\ etagCall = NoETagCall
    /\ errorEncoded = ""
    /\ authStatus = 0
    /\ lambda = NoLambda
    /\ concurrent = NoConcurrent

\* route registration: NewEndpoint(config, handler)
Register ==
    /\ pc = "unregistered"
    /\ \E c \in CallerConfigs, handler \in HandlerTypes(version) :
          /\ endpoint' = NewEndpoint(c, handler)
          /\ callerConfig' = c
    /\ pc' = "idle"
    /\ UNCHANGED <<version, ctxErr, req, requestMimeType, responseMimeType,
                   contentTypeOut, headersOut, calls, httpStatus,
                   responseBody, pending, inRecover, panicValue, panicSite, encoded,
                   responseFailure, etagCall, errorEncoded,
                   concurrent,
                   authStatus, lambda>>

\* the owner of the Endpoint assigns, on its exported Config, the optional
\* collaborators of its own Config, which NewEndpoint does not copy
AssignCollaborators ==
    /\ pc = "idle"
    /\ callerConfig.RequestValidator # Nil
    /\ endpoint.Config.RequestValidator = Nil
    /\ endpoint' = [endpoint EXCEPT
                      !.Config.RequestValidator = callerConfig.RequestValidator,
                      !.Config.ResponseValidator = callerConfig.ResponseValidator,
                      !.Config.Auther = IF version = 1 THEN callerConfig.Auther
                                        ELSE Nil]
    /\ UNCHANGED <<version, pc, ctxErr, req, requestMimeType, responseMimeType,
                   contentTypeOut, headersOut, calls, httpStatus, responseBody,
                   pending, inRecover, panicValue, panicSite, encoded,
                   responseFailure, callerConfig, etagCall,
                   errorEncoded,
                   concurrent,
                   authStatus, lambda>>

\* the caller of NewEndpoint removes an entry from a map of the Config it passed
\* in, which the Endpoint's Config holds too: NewEndpoint assigned the map itself
\* and did not copy it
CallerMutatesMaps ==
    /\ pc = "idle"
    /\ \/ \E key \in callerConfig.Resources :
             /\ SharesResources(version, callerConfig)
             /\ callerConfig' = [callerConfig EXCEPT !.Resources = @ \ {key}]
             /\ endpoint' = [endpoint EXCEPT !.Config.Resources = @ \ {key}]
       \/ \E mime \in callerConfig.MimeTypeHandlers :
             /\ SharesMimeTypeHandlers(version, callerConfig)
             /\ callerConfig' = [callerConfig EXCEPT !.MimeTypeHandlers = @ \ {mime}]
             /\ endpoint' = [endpoint EXCEPT !.Config.MimeTypeHandlers = @ \ {mime}]
    /\ UNCHANGED <<version, pc, ctxErr, req, requestMimeType, responseMimeType,
                   contentTypeOut, headersOut, calls, httpStatus, responseBody,
                   pending, inRecover, panicValue, panicSite, encoded,
                   responseFailure, etagCall, errorEncoded, concurrent,
                   authStatus, lambda>>

\* Execute is entered with a fresh context and Requester
StartExecute ==
    /\ pc = "idle"
    /\ \E contentType \in HeaderValues, accept \in HeaderValues :
          req' = [contentType |-> contentType, accept |-> accept]
    /\ headersOut' = IF version = 2 THEN {"X-Request-Id"} ELSE {}
    /\ pc' = "mime"
    /\ UNCHANGED <<version, endpoint, ctxErr, requestMimeType, responseMimeType,
                   contentTypeOut, calls, httpStatus, responseBody,
                   pending, inRecover, panicValue, panicSite,
                   encoded,
                   responseFailure, callerConfig, etagCall,
                   errorEncoded,
                   concurrent,
                   authStatus, lambda>>

InFlight == pc \notin {"unregistered", "idle", "done", "crashed"}

\* the context is cancelled, or its deadline expires, while Execute runs
Cancel ==
    /\ InFlight
    /\ ctxErr = Nil
    /\ ctxErr' \in {"Canceled", "DeadlineExceeded"}
    /\ UNCHANGED <<version, endpoint, pc, req, requestMimeType, responseMimeType,
                   contentTypeOut, headersOut, calls, httpStatus,
                   responseBody, pending, inRecover, panicValue, panicSite,
                   encoded,
                   responseFailure, callerConfig, etagCall,
                   errorEncoded,
                   concurrent,
                   authStatus, lambda>>

NegotiateMimeTypes ==
    /\ pc = "mime"
    /\ LET n == Negotiate(version, endpoint.handlerData,
                          endpoint.Config.MimeTypeHandlers, req.contentType, req.accept)
       IN  /\ requestMimeType' = n.requestMimeType
           /\ responseMimeType' = n.responseMimeType
           /\ contentTypeOut' = IF n.responseMimeType # Nil THEN n.responseMimeType
                                ELSE contentTypeOut
           /\ IF n.status = 0
              THEN pc' = PhaseAfter(version, "mime") /\ pending' = pending
              ELSE pc' = "error" /\ pending' = [status |-> n.status, err |-> n.err]
    /\ UNCHANGED <<version, endpoint, ctxErr, req, headersOut, calls,
                   httpStatus, responseBody, inRecover, panicValue, panicSite,
                   encoded,
                   responseFailure, callerConfig, etagCall,
                   errorEncoded,
                   concurrent,
                   authStatus, lambda>>

\* one call of processErrorResponse, from a phase or from the recover function; a
\* panic inside the recover function leaves Execute
ProcessErrorResponse ==
    /\ pc = "error"
    /\ \E o \in processErrorResponse(version, endpoint.Config, responseMimeType,
                                     pending.status, pending.err) :
          /\ calls' = calls \o o.calls
          /\ errorEncoded' = o.encoded
          /\ IF o.panic = ""
             THEN /\ pc' = "done"
                  /\ httpStatus' = o.status
                  /\ responseBody' = o.body
                  /\ contentTypeOut' = IF o.contentType = Nil THEN contentTypeOut
                                       ELSE o.contentType
                  /\ UNCHANGED <<panicValue, panicSite>>
             ELSE /\ pc' = IF inRecover THEN "crashed" ELSE "recover"
                  /\ panicValue' = o.panic
                  /\ panicSite' = IF panicSite = "" THEN "errorResponse" ELSE panicSite
                  /\ UNCHANGED <<httpStatus, responseBody, contentTypeOut>>
    /\ UNCHANGED <<version, endpoint, ctxErr, req, requestMimeType, responseMimeType,
                   headersOut, pending, inRecover, encoded,
                   responseFailure, callerConfig, etagCall,
                   concurrent,
                   authStatus, lambda>>

\* the deferred function of Execute recovers the panic
Recover ==
    /\ pc = "recover"
    /\ inRecover' = TRUE
    /\ pending' = [status |-> StatusInternalServerError,
                   err |-> RecoveredErr(version, panicValue)]
    /\ pc' = "error"
    /\ UNCHANGED <<version, endpoint, ctxErr, req, requestMimeType, responseMimeType,
                   contentTypeOut, headersOut, calls, httpStatus,
                   responseBody, panicValue, panicSite, encoded,
                   responseFailure, callerConfig, etagCall,
                   errorEncoded,
                   concurrent,
                   authStatus, lambda>>

\* Execute has returned; the context, the Requester and the handler instance of
\* the call are dropped
Finish ==
    /\ pc = "done"
    /\ pc' = "idle"
    /\ ctxErr' = Nil
    /\ req' = [contentType |-> "", accept |-> ""]
    /\ requestMimeType' = Nil
    /\ responseMimeType' = Nil
    /\ contentTypeOut' = ""
    /\ headersOut' = {}
    /\ calls' = <<>>
    /\ httpStatus' = 0
    /\ responseBody' = NilBody
    /\ pending' = NoPending
    /\ inRecover' = FALSE
    /\ panicValue' = ""
    /\ panicSite' = ""
    /\ encoded' = ""
    /\ responseFailure' = NoErr
    /\ errorEncoded' = ""
    /\ authStatus' = 0
    /\ UNCHANGED <<version, endpoint, callerConfig, etagCall,
                   concurrent, lambda>>

\* one phase of Execute: the poll of the cancellation signal at its boundary,
\* where Execute has one, then one of the phase's outcomes
Step(phase, outcomes) ==
    /\ pc = phase
    /\ \E o \in (IF PollsBefore(version, phase) /\ ~ShouldContinue(ctxErr)
                 THEN {Fail(StatusRequestTimeout, ErrRequestTimeout(version), <<>>,
                            httpStatus)}
                 ELSE outcomes) :
          /\ pc' = IF o.pc = "return" THEN "done" ELSE o.pc
          /\ pending' = o.pending
          /\ panicValue' = IF o.panic = "" THEN panicValue ELSE o.panic
          /\ panicSite' = IF o.panic = "" THEN panicSite ELSE "phase"
          /\ calls' = calls \o o.calls
          /\ httpStatus' = o.status
          /\ responseBody' = o.body
          /\ headersOut' = headersOut \cup o.headers
          /\ encoded' = IF o.encoded = "" THEN encoded ELSE o.encoded
          /\ responseFailure' = IF o.failure = NoErr THEN responseFailure ELSE o.failure
          /\ authStatus' = IF phase = "auth" /\ o.calls # <<>> /\ o.pc = PhaseAfter(version, "auth")
                            THEN o.status ELSE authStatus
    /\ UNCHANGED <<version, endpoint, ctxErr, req, requestMimeType, responseMimeType,
                   contentTypeOut, inRecover, callerConfig, etagCall,
                   errorEncoded,
                   concurrent, lambda>>

BindHandler ==
    Step("bind", Bind(version, endpoint.handlerData, endpoint.Config, httpStatus))

Authentication ==
    Step("auth", Authenticate(version, endpoint.handlerData, endpoint.Config, httpStatus))

HandleRequestBody ==
    Step("request", RequestBody(version, endpoint.handlerData, endpoint.Config, httpStatus))

RunHandler ==
    Step("handle", Handle(version, httpStatus))

HandleResponseBody ==
    Step("response", ResponseBody(version, endpoint.handlerData, endpoint.Config,
                                  responseMimeType, httpStatus))

HandleETagPhase ==
    Step("etag", ETag(endpoint.handlerData, httpStatus, responseBody))

Next ==
    \/ Register
    \/ AssignCollaborators
    \/ CallerMutatesMaps
    \/ StartExecute
    \/ Cancel
    \/ NegotiateMimeTypes
    \/ BindHandler
    \/ Authentication
    \/ HandleRequestBody
    \/ RunHandler
    \/ HandleResponseBody
    \/ HandleETagPhase
    \/ ProcessErrorResponse
    \/ Recover
    \/ Finish

Spec == Init /\ [][Next]_vars

\* HandleETag called on its own, as its test does: a Requester carrying the
\* conditional headers, a max-age, and the status and body of a response
InitETag ==
    /\ version = 2
    /\ endpoint = NoEndpoint
    /\ pc = "etagCall"
    /\ ctxErr = Nil
    /\ req = [contentType |-> "", accept |-> ""]
    /\ requestMimeType = Nil
    /\ responseMimeType = Nil
    /\ contentTypeOut = ""
    /\ headersOut = {}
    /\ calls = <<>>
    /\ httpStatus = 0
    /\ responseBody = NilBody
    /\ pending = NoPending
    /\ inRecover = FALSE
    /\ panicValue = ""
    /\ panicSite = ""
    /\ encoded = ""
    /\ responseFailure = NoErr
    /\ callerConfig = Nil
    /\ etagCall \in ETagCalls
    /\ errorEncoded = ""
    /\ authStatus = 0
    /\ lambda = NoLambda
    /\ concurrent = NoConcurrent

CallHandleETag ==
    /\ pc = "etagCall"
    /\ LET r == HandleETag(etagCall.ifNoneMatch, etagCall.ifMatch,
                           etagCall.cacheControl, etagCall.maxAgeSeconds,
                           etagCall.httpStatus, etagCall.responseBody)
       IN  /\ httpStatus' = r.status
           /\ responseBody' = r.body
           /\ headersOut' = HeaderNames(r.headers)
           /\ etagCall' = [etagCall EXCEPT !.headers = r.headers]
    /\ calls' = <<"HandleETag">>
    /\ pc' = "etagReturned"
    /\ UNCHANGED <<version, endpoint, ctxErr, req, requestMimeType, responseMimeType,
                   contentTypeOut, pending, inRecover, panicValue, panicSite,
                   encoded, responseFailure, callerConfig, errorEncoded,
                   concurrent,
                   authStatus, lambda>>

NextETag == CallHandleETag

SpecETag == InitETag /\ [][NextETag]_vars

\* Execute calls running together on one Endpoint, as the parallel tests run them
InitConcurrent ==
    /\ version = 2
    /\ endpoint = NoEndpoint
    /\ pc = "concurrent"
    /\ ctxErr = Nil
    /\ req = [contentType |-> "", accept |-> ""]
    /\ requestMimeType = Nil
    /\ responseMimeType = Nil
    /\ contentTypeOut = ""
    /\ headersOut = {}
    /\ calls = <<>>
    /\ httpStatus = 0
    /\ responseBody = NilBody
    /\ pending = NoPending
    /\ inRecover = FALSE
    /\ panicValue = ""
    /\ panicSite = ""
    /\ encoded = ""
    /\ responseFailure = NoErr
    /\ callerConfig = Nil
    /\ etagCall = NoETagCall
    /\ errorEncoded = ""
    /\ authStatus = 0
    /\ lambda = NoLambda
    /\ \E requests \in [ConcurrentCalls -> [path : PathValues, body : RequestBodies]] :
          concurrent = [requests |-> requests,
                        at |-> [c \in ConcurrentCalls |-> "allocate"],
                        handlerAlloc |-> [c \in ConcurrentCalls |-> 0],
                        instances |-> <<>>,
                        results |-> [c \in ConcurrentCalls |-> NoResult]]

\* one step of call c: from position `from` to position `to`, changing the
\* fields given
CallStep(c, from, to, changed) ==
    /\ pc = "concurrent"
    /\ concurrent.at[c] = from
    /\ concurrent' = [changed EXCEPT !.at[c] = to]
    /\ UNCHANGED <<version, endpoint, pc, ctxErr, req, requestMimeType,
                   responseMimeType, contentTypeOut, headersOut, calls, httpStatus,
                   responseBody, pending, inRecover, panicValue, panicSite, encoded,
                   responseFailure, callerConfig, etagCall, errorEncoded,
                   authStatus, lambda>>

\* handlerAlloc := self.handlerData.allocateHandler()
AllocateHandler(c) ==
    LET instances == allocateHandler(concurrent.instances)
    IN  CallStep(c, "allocate", "bind",
                 [concurrent EXCEPT !.instances = instances,
                                    !.handlerAlloc[c] = Len(instances)])

\* setResources, setPathParameters, setQueryParameters on the call's handler
BindValues(c) ==
    LET h == HandlerValue(c, concurrent.handlerAlloc, concurrent.instances)
    IN  CallStep(c, "bind", "decode",
                 [concurrent EXCEPT !.instances[h].path = concurrent.requests[c].path])

\* setHandlerRequestBody: the request body decoded into the call's handler
DecodeBody(c) ==
    LET h == HandlerValue(c, concurrent.handlerAlloc, concurrent.instances)
    IN  CallStep(c, "decode", "handle",
                 [concurrent EXCEPT
                    !.instances[h].requestBody = concurrent.requests[c].body])

\* handlerAlloc.handler.Handle(ctx): the handler works on its own fields
HandleCall(c) ==
    LET h == HandlerValue(c, concurrent.handlerAlloc, concurrent.instances)
        self == concurrent.instances[h]
    IN  CallStep(c, "handle", "encode",
                 [concurrent EXCEPT
                    !.instances[h].responseBody = <<self.path, self.requestBody>>,
                    !.results[c].status = StatusOK])

\* getHandlerResponseBody, then the return of status and body
EncodeAndReturn(c) ==
    LET h == HandlerValue(c, concurrent.handlerAlloc, concurrent.instances)
    IN  CallStep(c, "encode", "returned",
                 [concurrent EXCEPT
                    !.results[c].body = concurrent.instances[h].responseBody,
                    !.results[c].contentType = MimeJSON])

NextConcurrent ==
    \E c \in ConcurrentCalls :
        \/ AllocateHandler(c)
        \/ BindValues(c)
        \/ DecodeBody(c)
        \/ HandleCall(c)
        \/ EncodeAndReturn(c)

SpecConcurrent == InitConcurrent /\ [][NextConcurrent]_vars

\* one invocation, entered through the lambda wrapper or through NewContext, under
\* a parent context with or without a deadline; the clock starts at 0
InitLambda ==
    /\ version = 2
    /\ endpoint = NoEndpoint
    /\ pc = "lambda"
    /\ ctxErr = Nil
    /\ req = [contentType |-> "", accept |-> ""]
    /\ requestMimeType = Nil
    /\ responseMimeType = Nil
    /\ contentTypeOut = ""
    /\ headersOut = {}
    /\ calls = <<>>
    /\ httpStatus = 0
    /\ responseBody = NilBody
    /\ pending = NoPending
    /\ inRecover = FALSE
    /\ panicValue = ""
    /\ panicSite = ""
    /\ encoded = ""
    /\ responseFailure = NoErr
    /\ callerConfig = Nil
    /\ etagCall = NoETagCall
    /\ errorEncoded = ""
    /\ authStatus = 0
    /\ concurrent = NoConcurrent
    /\ \E entry \in Entries, parentDeadline \in {NoDeadline} \cup 0..MaxTime :
          lambda = [NoLambda EXCEPT !.entry = entry, !.parentDeadline = parentDeadline]

\* one step of the invocation: the record after it
LambdaStep(after) ==
    /\ pc = "lambda"
    /\ lambda' = after
    /\ UNCHANGED <<version, endpoint, pc, ctxErr, req, requestMimeType,
                   responseMimeType, contentTypeOut, headersOut, calls, httpStatus,
                   responseBody, pending, inRecover, panicValue, panicSite, encoded,
                   responseFailure, callerConfig, etagCall, errorEncoded,
                   concurrent, authStatus>>

\* time passes; an invocation is entered by MaxEntryTime
Tick ==
    /\ lambda.now < MaxTime
    /\ lambda.run = "entry" => lambda.now < MaxEntryTime
    /\ LambdaStep([lambda EXCEPT !.now = lambda.now + 1])

\* the wrapped handler is invoked: ctx, cancel := context.WithTimeout(ctx,
\* runner.Timeout()), then the task that waits for ctx.Done() is started
InvokeLambda ==
    /\ lambda.entry = "lambda"
    /\ lambda.run = "entry"
    /\ \E timeout \in 0..MaxTimeout :
          LambdaStep([WithTimeout(lambda, timeout) EXCEPT
                        !.run = "running", !.watcher = "blocked"])

\* NewContext(serverContext, requestCtx, logger, timeout): the Context keeps the
\* cancel function of local.WithTimeout
CreateContext ==
    /\ lambda.entry = "server"
    /\ lambda.run = "entry"
    /\ \E timeout \in 0..MaxTimeout :
          LambdaStep([WithTimeout(lambda, timeout) EXCEPT !.run = "running"])

\* the timer of the context fires at its deadline
TimerFires ==
    /\ lambda.timer = "armed"
    /\ lambda.now >= lambda.deadline
    /\ LambdaStep([cancel(lambda, "DeadlineExceeded") EXCEPT !.timer = "fired"])

\* the parent context is done, which cancels the contexts made from it
ParentDone(cause) ==
    /\ lambda.parentErr = Nil
    /\ LET parent == [lambda EXCEPT !.parentErr = cause]
       IN  LambdaStep(IF lambda.run = "entry" THEN parent ELSE cancel(parent, cause))

\* the caller of the wrapped handler cancels the context it passed in
ParentCancelled == ParentDone("Canceled")

\* the deadline of the parent context passes
ParentDeadlineExpires ==
    /\ lambda.parentDeadline # NoDeadline
    /\ lambda.now >= lambda.parentDeadline
    /\ ParentDone("DeadlineExceeded")

\* go func() { <-ctx.Done(); ... }: the receive returns once Done is closed
WatcherWakes ==
    /\ lambda.watcher = "blocked"
    /\ lambda.doneClosed
    /\ LambdaStep([lambda EXCEPT !.watcher = "cancelling"])

\* go func() { ...; cancel() }: the task calls cancel and ends
WatcherCancels ==
    /\ lambda.watcher = "cancelling"
    /\ LambdaStep([cancel(lambda, "Canceled") EXCEPT
                     !.watcher = "exited",
                     !.watcherCancels = lambda.watcherCancels + 1])

\* Context.Cancel(): self.cancel(), called by the code the Context was handed to
ContextCancel ==
    /\ lambda.entry = "server"
    /\ lambda.run # "entry"
    /\ lambda.cancelCalls < MaxCancelCalls
    /\ LambdaStep([cancel(lambda, "Canceled") EXCEPT
                     !.cancelCalls = lambda.cancelCalls + 1])

\* the execution derives a context for its own use and polls it at the boundary
\* of the handler; it returns, with 408 when the context was done at the poll
RunReturns ==
    /\ lambda.run = "running"
    /\ LambdaStep([lambda EXCEPT !.run = "returned",
                                 !.runDeadline = Derive(lambda.deadline),
                                 !.timedOut = ~ShouldContinue(lambda.err)])

NextLambda ==
    \/ Tick
    \/ InvokeLambda
    \/ CreateContext
    \/ TimerFires
    \/ ParentCancelled
    \/ ParentDeadlineExpires
    \/ WatcherWakes
    \/ WatcherCancels
    \/ ContextCancel
    \/ RunReturns

\* the clock advances, timers fire and a task that can run is run
SpecLambda ==
    /\ InitLambda
    /\ [][NextLambda]_vars
    /\ WF_vars(Tick)
    /\ WF_vars(InvokeLambda)
    /\ WF_vars(TimerFires)
    /\ WF_vars(ParentDeadlineExpires)
    /\ WF_vars(WatcherWakes)
    /\ WF_vars(WatcherCancels)

-----------------------------------------------------------------------------
(* Properties *)

Called(name) == \E i \in 1..Len(calls) : calls[i] = name

InExecution == pc \notin {"unregistered", "idle"}

\* the (status, body) pairs the error responder can return for (status, err)
ResponderResults(status, err) ==
    {[status |-> o.status, body |-> o.body] :
        o \in {x \in processErrorResponse(version, endpoint.Config, responseMimeType,
                                          status, err) : x.panic = ""}}

Returned == [status |-> httpStatus, body |-> responseBody]

\* the error responder returns the status it is given: no type was negotiated, or
\* the default strategy renders for the known JSON codec
ResponderKeepsStatus ==
    \/ responseMimeType = Nil
    \/ (endpoint.Config.ErrorHandler = "default" /\ responseMimeType = MimeJSON)

\* a phase has handed an error to the error responder, whose call has not panicked
PhaseFailed == pc \in {"error", "done"} /\ ~inRecover /\ pending # NoPending

\* once a phase has failed or panicked, no later phase runs: the steps that follow
\* are the error responder's and the recover function's
NoPhaseAfterFailure ==
    pc \in {"error", "recover"} =>
        /\ pc' \in {"error", "recover", "done", "crashed"}
        /\ \A i \in 1..Len(calls') :
              i > Len(calls) => calls'[i] \in {"HandleError", "Marshal"}

\* a mime type lookup of the request finds no codec: Content-Type when the handler
\* declares a request body, or Accept
LookupNotFound ==
    LET hd == endpoint.handlerData
        registry == endpoint.Config.MimeTypeHandlers
    IN  \/ hd.hasRequestBody /\ Get(registry, req.contentType, hd.requestMimeTypes) = Nil
        \/ Get(registry, req.accept, hd.responseMimeTypes) = Nil

\* C1: in the Execute of version 2, a request whose Content-Type (for a handler
\* with a request body) or Accept finds no codec in the registry restricted to the
\* handler's subset is answered 415, and no handler instance is allocated or bound
\* and no authorizer, codec, validator or handler is called
C1_UnsupportedMediaType ==
    (version = 2 /\ InExecution /\ pc # "mime" /\ LookupNotFound) =>
        /\ calls = <<>>
        /\ pc \in {"error", "done"}
        /\ pending.status = StatusUnsupportedMediaType
        /\ pc = "done" => httpStatus = StatusUnsupportedMediaType

\* a registered mime type outside the handler's subset was refused with 415
C1_Witness ==
    /\ version = 2
    /\ pc = "done"
    /\ req.accept \in endpoint.Config.MimeTypeHandlers
    /\ req.accept \notin endpoint.handlerData.responseMimeTypes
    /\ LookupNotFound
    /\ httpStatus = StatusUnsupportedMediaType

\* C2: in every execution an absent or unsupported Accept value is answered 415
\* before a handler instance is allocated, whether or not the handler declares a
\* response body
C2_AcceptAlwaysNegotiated ==
    (InExecution /\ pc # "mime"
     /\ Get(endpoint.Config.MimeTypeHandlers, req.accept,
            endpoint.handlerData.responseMimeTypes) = Nil) =>
        /\ ~Called("allocateHandler")
        /\ pc \in {"error", "done"}
        /\ pc = "done" => httpStatus = StatusUnsupportedMediaType

\* the request-timeout error was handed to the error responder and the handler
\* has not been called
TimedOutBeforeHandler ==
    PhaseFailed /\ pending.err = ErrRequestTimeout(version) /\ ~Called("Handle")

\* C3: when the cancellation signal is already raised as execution reaches the
\* boundary of the handler phase, Handle is never invoked and (408, request
\* timeout) is handed to the error responder; Execute returns the responder's
\* result for that pair, which has status 408 when no response type was
\* negotiated or the default strategy renders it for the JSON codec
C3_TimeoutBeforeHandler ==
    /\ [][(pc = "handle" /\ ~ShouldContinue(ctxErr)) =>
            /\ pc' = "error"
            /\ pending' = [status |-> StatusRequestTimeout,
                           err |-> ErrRequestTimeout(version)]
            /\ calls' = calls]_vars
    /\ [][NoPhaseAfterFailure]_vars
    /\ [](TimedOutBeforeHandler =>
            /\ pending.status = StatusRequestTimeout
            /\ pc = "done" =>
                  /\ Returned \in ResponderResults(pending.status, pending.err)
                  /\ ResponderKeepsStatus => httpStatus = StatusRequestTimeout)

\* version 2 reached the handler boundary cancelled and answered 408
C3_Witness ==
    /\ version = 2
    /\ pc = "done"
    /\ TimedOutBeforeHandler
    /\ Called("allocateHandler")
    /\ ctxErr # Nil
    /\ httpStatus = StatusRequestTimeout

\* C3 as stated: the execution that found the signal raised before the handler
\* returns status 408
C3_TimeoutReturns408 ==
    (pc = "done" /\ TimedOutBeforeHandler) => httpStatus = StatusRequestTimeout

PipelinePhases == {"bind", "auth", "request", "handle", "response", "etag"}

\* C4: the cancellation signal is polled at the boundary of every phase: a phase
\* reached with the signal raised is not invoked, and 408 is answered instead
C4_PolledAtEveryBoundary ==
    [][(pc \in PipelinePhases /\ ~ShouldContinue(ctxErr)) =>
          /\ pc' = "error"
          /\ pending'.status = StatusRequestTimeout
          /\ calls' = calls]_vars

\* C5: a panic raised in a pipeline phase is caught inside Execute, which returns
\* normally with status 500
C5_PhasePanicRecovered ==
    panicSite = "phase" =>
        /\ pc # "crashed"
        /\ pc = "done" => httpStatus = StatusInternalServerError

\* C6: the body returned after a recovered panic does not show the panic value
C6_PanicPayloadNotExposed ==
    (pc = "done" /\ panicValue # "") => panicValue \notin responseBody.shows

\* C7: no panic leaves Execute, wherever it is raised
C7_NoPanicLeavesExecute == pc # "crashed"

\* C8: NewEndpoint registers no handler type that declares a resource key the
\* Config's resource map lacks
C8_ResourcesCheckedAtRegistration ==
    endpoint.registered =>
        endpoint.handlerData.resources \subseteq endpoint.Config.Resources

\* the binder's error was handed to the error responder
BindFailed ==
    PhaseFailed /\ pending.err.cause \in
                     {"path parameter", "query parameter", "resource not found"}

\* C9: a path or query value that fails coercion is handed to the error responder
\* with status 400 and a declared resource that is absent with status 500;
\* neither the authorizer nor the handler is invoked, and Execute returns the
\* responder's result, whose status is the one handed over when no response type
\* was negotiated or the default strategy renders it for the JSON codec
C9_BindingFailure ==
    /\ [][NoPhaseAfterFailure]_vars
    /\ [](BindFailed =>
            /\ pending.status = IF pending.err.cause = "resource not found"
                                THEN StatusInternalServerError ELSE StatusBadRequest
            /\ ~Called("Authorization") /\ ~Called("Handle")
            /\ pc = "done" =>
                  /\ Returned \in ResponderResults(pending.status, pending.err)
                  /\ ResponderKeepsStatus => httpStatus = pending.status)

\* a path value failed coercion and Execute answered 400
C9_Witness ==
    /\ pc = "done"
    /\ BindFailed
    /\ pending.err.cause = "path parameter"
    /\ httpStatus = StatusBadRequest

\* C9 as stated: a coercion failure returns 400 and an absent resource 500
C9_BindingFailureStatus ==
    (pc = "done" /\ BindFailed) =>
        httpStatus = IF pending.err.cause = "resource not found"
                     THEN StatusInternalServerError ELSE StatusBadRequest

\* the authorizer's error was handed to the error responder
AuthFailed == PhaseFailed /\ pending.err = NewErr("unauthorized")

\* C10: when the authorizer returns (s, e) with e non-nil, exactly s and e are
\* handed to the error responder and Execute returns the responder's result;
\* no body is decoded, no validator runs and the handler is not invoked
C10_AuthFailure ==
    /\ [][NoPhaseAfterFailure]_vars
    /\ [](AuthFailed =>
            /\ pending.status \in AuthErrStatuses
            /\ pc = "error" => pending.status = httpStatus
            /\ \A name \in {"Unmarshal", "ValidateRequest", "Handle", "ValidateResponse"} :
                  ~Called(name)
            /\ pc = "done" => Returned \in ResponderResults(pending.status, pending.err))

\* the authorizer refused with 403 and Execute returned the responder's result
C10_Witness ==
    /\ pc = "done"
    /\ AuthFailed
    /\ pending.status = 403
    /\ Called("Authorization")
    /\ httpStatus = 403

\* Execute returns the error responder's result for the pair handed to it; its
\* status is the one handed over when the responder keeps the status
ReturnsResponderResult ==
    pc = "done" =>
        /\ Returned \in ResponderResults(pending.status, pending.err)
        /\ ResponderKeepsStatus => httpStatus = pending.status

\* the codec failed to decode the request body; it failed to encode the handler's
\* response body
DecodeFailed ==
    PhaseFailed /\ pending.err = ErrBadRequest(version, "unmarshal failure",
                                               "ErrorRequestBodyUnmarshalFailure")
EncodeFailed == PhaseFailed /\ encoded = "failed"

\* C11: a failure to decode the request body is handed to the error responder with
\* status 400 and the handler is never invoked; a failure to encode the handler's
\* response body is handed over with status 500 and no success body is returned;
\* Execute returns the responder's result, whose status is the one handed over
\* when no response type was negotiated or the default strategy renders it for the
\* JSON codec
C11_CodecFailure ==
    /\ [][NoPhaseAfterFailure]_vars
    /\ [](DecodeFailed =>
            /\ pending.status = StatusBadRequest
            /\ ~Called("Handle")
            /\ ReturnsResponderResult)
    /\ [](EncodeFailed =>
            /\ pending.status = StatusInternalServerError
            /\ ReturnsResponderResult)
    /\ [](encoded = "failed" => pending # NoPending /\ pc # "etag")

\* the request body failed to decode and Execute answered 400
C11_Witness ==
    /\ pc = "done"
    /\ DecodeFailed
    /\ Called("Unmarshal")
    /\ httpStatus = StatusBadRequest

\* C11 as stated: a decode failure returns 400 and an encode failure 500
C11_CodecFailureStatus ==
    /\ (pc = "done" /\ DecodeFailed) => httpStatus = StatusBadRequest
    /\ (pc = "done" /\ EncodeFailed) => httpStatus = StatusInternalServerError

C13_RequestValidatorRuns ==
    (InExecution /\ callerConfig.RequestValidator # Nil
     /\ endpoint.handlerData.shouldValidateRequest /\ Called("Handle")) =>
        \E i, j \in 1..Len(calls) :
            /\ i < j
            /\ calls[i] = "ValidateRequest"
            /\ calls[j] = "Handle"

\* the response validator has run and returned, and no panic was raised since
ResponseValidated == Called("ValidateResponse") /\ panicSite = ""

\* C14: the failure the response validator returns alone decides the outcome: a
\* non-nil failure is handed to the error responder and no success body is
\* returned, a nil failure gives no error response
C14_ResponseValidatorDecides ==
    ResponseValidated =>
        IF responseFailure # NoErr
        THEN pc \in {"error", "done"} /\ pending.err = responseFailure
        ELSE pc \in {"etag", "done"} /\ pending = NoPending

HandlerFailed == PhaseFailed /\ pending.err = NewErr("handler error")

\* C15: when the handler returns (s, e) with e non-nil, exactly s and e are
\* handed to the error responder and Execute returns the responder's result;
\* the response body is not encoded, the response validator does not run and
\* no ETag processing happens
C15_HandlerError ==
    /\ [][NoPhaseAfterFailure]_vars
    /\ [](HandlerFailed =>
            /\ pending.status \in HandleErrStatuses
            /\ pc = "error" => pending.status = httpStatus
            /\ encoded = ""
            /\ ~Called("ValidateResponse")
            /\ ~Called("HandleETag")
            /\ headersOut \cap {"ETag", "Cache-Control"} = {}
            /\ ReturnsResponderResult)

\* the handler refused with 422 and Execute returned the responder's result
C15_Witness ==
    /\ pc = "done"
    /\ HandlerFailed
    /\ pending.status = StatusUnprocessableEntity
    /\ Called("Handle")
    /\ httpStatus = StatusUnprocessableEntity
    /\ endpoint.handlerData.eTagEnabled
    /\ endpoint.Config.ResponseValidator # Nil

\* the response phase ends Execute with a success response, caching not enabled
SucceedsUncached == pc = "response" /\ pc' = "done" /\ pending' = NoPending

\* C16: a request that passes every phase, caching not enabled, is answered
\* with the status the handler returned (no validator's status replaces it) and
\* with the negotiated codec's encoding of the handler's response body
C16_SuccessResponse ==
    [][SucceedsUncached =>
          /\ httpStatus' = httpStatus
          /\ endpoint.handlerData.hasResponseBody =>
                responseBody' = Encoded(responseMimeType, {"response"})]_vars

-----------------------------------------------------------------------------
(* Properties of HandleETag, over SpecETag *)

ETagReturned == pc = "etagReturned"

\* tag is one of the comma-separated pieces of header, blanks around it aside
HasToken(header, tag) ==
    \E i \in 1..(Len(header) + 1), j \in 0..Len(header) :
        /\ i = 1 \/ header[i - 1] = comma
        /\ j = Len(header) \/ header[j + 1] = comma
        /\ \E a \in i..(j + 1) :
              /\ a + Len(tag) - 1 <= j
              /\ \A m \in i..j :
                    IF a <= m /\ m < a + Len(tag)
                    THEN header[m] = tag[m - a + 1]
                    ELSE header[m] = " "

\* one of the four conditions under which conditional processing is skipped
SkipCondition ==
    \/ etagCall.httpStatus < 200 \/ etagCall.httpStatus >= 300
    \/ etagCall.responseBody = NilBody
    \/ \E i \in 1..Len(etagCall.cacheControl) : etagCall.cacheControl[i] = "no-cache"
    \/ (etagCall.ifNoneMatch = <<>> /\ etagCall.ifMatch = <<>>)

Fingerprint == ETagValue(etagCall.responseBody)

ReturnsOriginal ==
    httpStatus = etagCall.httpStatus /\ responseBody = etagCall.responseBody

\* C17: under a skip condition (status outside [200,300), empty body, request
\* Cache-Control containing no-cache, or neither conditional header present)
\* HandleETag returns the given status and body and sets neither the ETag nor
\* the Cache-Control response header
C17_SkipPassesThrough ==
    (ETagReturned /\ SkipCondition) =>
        /\ ReturnsOriginal
        /\ etagCall.headers = NoETagHeaders
        /\ headersOut = {}

\* skipped for no-cache alone: a 200 with a body whose fingerprint the request's
\* If-None-Match names
C17_Witness ==
    /\ ETagReturned
    /\ etagCall.httpStatus = StatusOK
    /\ etagCall.responseBody # NilBody
    /\ HasToken(etagCall.ifNoneMatch, Fingerprint)
    /\ SkipCondition
    /\ ReturnsOriginal
    /\ headersOut = {}

\* C18: when no skip condition holds HandleETag sets the ETag response header to
\* the body's fingerprint and sets Cache-Control to max-age=N exactly when the
\* max-age N is positive; for zero or negative N no Cache-Control header is set
C18_HeadersSet ==
    (ETagReturned /\ ~SkipCondition) =>
        /\ etagCall.headers.ETag = Fingerprint
        /\ IF etagCall.maxAgeSeconds > 0
           THEN etagCall.headers.CacheControl = <<"max-age=", etagCall.maxAgeSeconds>>
           ELSE etagCall.headers.CacheControl = <<>>

\* C19: with If-None-Match present and no skip condition, HandleETag returns
\* (304, empty body) exactly when some comma-separated, trimmed token of the
\* header is "*" or the fingerprint, and the original status and body
\* otherwise; the ETag header is set either way
C19_IfNoneMatch ==
    (ETagReturned /\ ~SkipCondition /\ etagCall.ifNoneMatch # <<>>) =>
        /\ etagCall.headers.ETag = Fingerprint
        /\ IF \/ HasToken(etagCall.ifNoneMatch, <<"*">>)
              \/ HasToken(etagCall.ifNoneMatch, Fingerprint)
           THEN httpStatus = StatusNotModified /\ responseBody = NilBody
           ELSE ReturnsOriginal

\* a 304 for a fingerprint padded with a blank, If-Match present as well
C19_Witness ==
    /\ ETagReturned
    /\ ~SkipCondition
    /\ etagCall.ifNoneMatch = <<"j", " ">>
    /\ etagCall.ifMatch # <<>>
    /\ Fingerprint = <<"j">>
    /\ httpStatus = StatusNotModified
    /\ responseBody = NilBody
    /\ etagCall.headers.ETag = Fingerprint

OnlyIfMatch ==
    ETagReturned /\ ~SkipCondition /\ etagCall.ifNoneMatch = <<>> /\ etagCall.ifMatch # <<>>

PreconditionFailed ==
    /\ httpStatus = StatusPreconditionFailed
    /\ responseBody = NilBody
    /\ etagCall.headers.ETag = Fingerprint
    /\ etagCall.maxAgeSeconds # 0 =>
          etagCall.headers.CacheControl = <<"max-age=", etagCall.maxAgeSeconds>>

\* C20: with only If-Match present and no skip condition, HandleETag returns
\* (412, empty body), the ETag header (and Cache-Control when a max-age is
\* configured) still set, when no trimmed token of If-Match is "*" or the
\* fingerprint, and the original status and body when some token is "*" or the
\* fingerprint
C20_IfMatch ==
    OnlyIfMatch =>
        IF \/ HasToken(etagCall.ifMatch, <<"*">>)
           \/ HasToken(etagCall.ifMatch, Fingerprint)
        THEN ReturnsOriginal /\ etagCall.headers.ETag = Fingerprint
        ELSE PreconditionFailed

\* a 412 for a stale tag, max-age configured
C20_Witness ==
    /\ OnlyIfMatch
    /\ etagCall.ifMatch = <<"j", " ", "j">>
    /\ etagCall.maxAgeSeconds = CustomMaxAge
    /\ PreconditionFailed

\* C20 as stated: 412 whenever no trimmed token of If-Match equals the
\* fingerprint, the original status and body when some token equals it
C20_IfMatchFingerprintOnly ==
    OnlyIfMatch =>
        IF HasToken(etagCall.ifMatch, Fingerprint)
        THEN ReturnsOriginal
        ELSE PreconditionFailed

\* If-Match alone, carrying the token "*", on a 2xx response with a body
IfMatchWildcard ==
    /\ ETagReturned
    /\ etagCall.ifNoneMatch = <<>>
    /\ HasToken(etagCall.ifMatch, <<"*">>)
    /\ etagCall.httpStatus >= 200 /\ etagCall.httpStatus < 300
    /\ etagCall.responseBody # NilBody

\* C21: an If-Match header (no If-None-Match) that carries the token "*" lets a
\* 2xx response with a body through: HandleETag returns the original status and
\* body, never 412
C21_IfMatchWildcardPasses ==
    IfMatchWildcard => ReturnsOriginal /\ httpStatus # StatusPreconditionFailed

\* If-Match: " ,*" (a blank piece, then the wildcard) on a 200: the response
\* comes back as it was, ETag set
C21_Witness ==
    /\ IfMatchWildcard
    /\ ~SkipCondition
    /\ etagCall.ifMatch = <<" ", comma, "*">>
    /\ httpStatus = StatusOK
    /\ responseBody = etagCall.responseBody
    /\ etagCall.headers.ETag = Fingerprint

\* C21 as stated: such a header is a forced non-match, answered (412, empty body)
C21_IfMatchWildcardRejected ==
    IfMatchWildcard => httpStatus = StatusPreconditionFailed /\ responseBody = NilBody

BothConditionals ==
    ETagReturned /\ etagCall.ifNoneMatch # <<>> /\ etagCall.ifMatch # <<>>

\* C22: with If-None-Match and If-Match both present only If-None-Match is
\* evaluated: HandleETag's status, body and headers are the same for every
\* value of If-Match, and 412 is never produced
C22_IfNoneMatchPrecedence ==
    BothConditionals =>
        /\ httpStatus # StatusPreconditionFailed
        /\ \A other \in {h \in RawHeaders : <<etagCall.ifNoneMatch, h>> \in ConditionalHeaders}
                       \ {<<>>} :
              HandleETag(etagCall.ifNoneMatch, other, etagCall.cacheControl,
                         etagCall.maxAgeSeconds, etagCall.httpStatus,
                         etagCall.responseBody)
                = [status |-> httpStatus, body |-> responseBody,
                   headers |-> etagCall.headers]

\* If-None-Match names the fingerprint while If-Match names a stale tag: 304
C22_Witness ==
    /\ BothConditionals
    /\ ~SkipCondition
    /\ HasToken(etagCall.ifNoneMatch, Fingerprint)
    /\ etagCall.ifMatch = <<" ">>
    /\ httpStatus = StatusNotModified

\* C23: the ETag header is a function of the response body alone: whatever the
\* conditional headers, the Cache-Control header, the max-age and the 2xx
\* status of another call on the same body, the ETag it sets is the one this
\* call set
C23_ETagPureFunctionOfBody ==
    (ETagReturned /\ etagCall.headers.ETag # <<>>) =>
        \A inm \in ETagHeaders, im \in ETagHeaders,
           maxAge \in {-CustomMaxAge, 0, CustomMaxAge},
           status \in {StatusOK, StatusCreated} :
            LET other == HandleETag(inm, im, <<>>, maxAge, status,
                                    etagCall.responseBody)
            IN  other.headers.ETag # <<>> =>
                    other.headers.ETag = etagCall.headers.ETag

\* a 304 with max-age set, whose ETag a plain 200 of the same body shares
C23_Witness ==
    /\ ETagReturned
    /\ etagCall.headers.ETag = <<"j">>
    /\ etagCall.maxAgeSeconds = CustomMaxAge
    /\ httpStatus = StatusNotModified
    /\ HandleETag(<<>>, <<"*">>, <<>>, 0, StatusCreated,
                  etagCall.responseBody).headers.ETag = <<"j">>

-----------------------------------------------------------------------------
(* Properties of the error responder, over Spec *)

\* processErrorResponse returns or panics
ErrorResponderActs == pc = "error" /\ pc' # "error"

\* C24: an error emitted while no response content type is negotiated sets the
\* response content type to plain text and returns the given status with a
\* plain-text rendering of the error; neither the error strategy nor a codec
\* is invoked
C24_PlainTextFallback ==
    [][(ErrorResponderActs /\ responseMimeType = Nil) =>
          /\ pc' = "done"
          /\ contentTypeOut' = mimeTypeTextPlain
          /\ httpStatus' = pending.status
          /\ responseBody'.kind = "text"
          /\ responseBody'.mime = mimeTypeTextPlain
          /\ Format(pending.err) \subseteq responseBody'.shows
          /\ calls' = calls]_vars

\* a 415 of a failed negotiation, answered in plain text
C24_Witness ==
    /\ pc = "done"
    /\ pending.status = StatusUnsupportedMediaType
    /\ responseMimeType = Nil
    /\ contentTypeOut = mimeTypeTextPlain
    /\ httpStatus = StatusUnsupportedMediaType
    /\ responseBody.kind = "text"
    /\ ~Called("HandleError")
    /\ ~Called("Marshal")

\* the generic message of the fallback: the same text whatever error was to be
\* rendered
GenericInternalError ==
    /\ responseBody.kind = "text"
    /\ responseBody.mime = mimeTypeTextPlain
    /\ responseBody.shows = Format(ErrEncodeFailure(version))

\* C25: when the negotiated codec fails to encode the error payload the error
\* responder returns 500 with a generic plain-text internal-error message and
\* content type plain text, whatever the status it was given; the fallback
\* itself always ends in a response
C25_EncodeFailureFallback ==
    errorEncoded = "failed" =>
        /\ pc = "done"
        /\ httpStatus = StatusInternalServerError
        /\ contentTypeOut = mimeTypeTextPlain
        /\ GenericInternalError

\* a handler's 422 whose payload the codec could not encode, answered 500
C25_Witness ==
    /\ errorEncoded = "failed"
    /\ pc = "done"
    /\ ~inRecover
    /\ pending.status = StatusUnprocessableEntity
    /\ responseMimeType # Nil
    /\ httpStatus = StatusInternalServerError
    /\ contentTypeOut = mimeTypeTextPlain

\* the statuses a phase may class an error as: 415 negotiation, 400 binding or
\* decode, 408 timeout, the caller's own status for auth, validator and handler
\* failures, 500 otherwise (missing resource, encode)
ClassifiedStatuses(v, err) ==
    IF err = ErrRequestTimeout(v) THEN {StatusRequestTimeout}
    ELSE IF err.cause = "ErrInvalidMimeType" \/ err \in
              {NewErr(msg) : msg \in {"Content-Type MIME type not provided",
                                      "Content-Type MIME type not supported",
                                      "Accept MIME type not provided",
                                      "Accept MIME type not supported"}}
    THEN {StatusUnsupportedMediaType}
    ELSE IF err.with \in {"ErrBadRequest", "ErrorRequestBodyUnmarshalFailure"}
    THEN {StatusBadRequest}
    ELSE IF err = NewErr("unauthorized") THEN AuthErrStatuses
    ELSE IF err \in {NewErr("invalid request"), NewErr("invalid response")}
    THEN ValidatorFailStatuses
    ELSE IF err = NewErr("handler error") THEN HandleErrStatuses
    ELSE {StatusInternalServerError}

\* C26: for every phase failure other than a recovered panic the failing phase
\* hands its own classification of the error to the error responder; Execute
\* returns that status when no response type was negotiated or the default
\* strategy renders for the JSON codec, else the status the error strategy
\* returns, or 500 when the codec fails on the error payload
C26_StatusFromPhase ==
    PhaseFailed =>
        /\ pending.status \in ClassifiedStatuses(version, pending.err)
        /\ pc = "done" =>
              /\ errorEncoded = "" => httpStatus = pending.status
              /\ errorEncoded = "bytes" =>
                    httpStatus \in {p.status : p \in HandleError(endpoint.Config.ErrorHandler,
                                                              pending.status, pending.err)}
              /\ errorEncoded = "failed" => httpStatus = StatusInternalServerError
              /\ ResponderKeepsStatus => httpStatus = pending.status

\* a timeout rendered by the negotiated codec, answered 408
C26_Witness ==
    /\ pc = "done"
    /\ PhaseFailed
    /\ pending.err = ErrRequestTimeout(version)
    /\ errorEncoded = "bytes"
    /\ httpStatus = StatusRequestTimeout

\* C26 as stated: the status Execute returns is always the failing phase's
C26_StatusNeverReplaced ==
    (PhaseFailed /\ pc = "done") => httpStatus = pending.status

\* Accept negotiation has succeeded in this execution
AcceptNegotiated == InExecution /\ responseMimeType # Nil

\* C27: once Accept negotiation has succeeded the response content type is the
\* negotiated mime type in every later state of the execution, error outcomes
\* and the final response included, except after the codec failed to encode an
\* error payload, when it is plain text
C27_ContentTypeFixed ==
    AcceptNegotiated =>
        contentTypeOut = IF errorEncoded = "failed" THEN mimeTypeTextPlain
                         ELSE responseMimeType

\* a handler error rendered in the negotiated type
C27_Witness ==
    /\ AcceptNegotiated
    /\ pc = "done"
    /\ HandlerFailed
    /\ errorEncoded = "bytes"
    /\ contentTypeOut = MimeJSON
    /\ responseBody.kind = "encoded"
    /\ responseBody.mime = MimeJSON

\* C27 as stated: the content type is the negotiated one in every later state
C27_ContentTypeNeverChanges ==
    AcceptNegotiated => contentTypeOut = responseMimeType

-----------------------------------------------------------------------------
(* Properties of registration, over Spec *)

\* NewEndpoint returns
Registers == pc = "unregistered" /\ pc' = "idle"

\* C28: NewEndpoint clones the caller's Config faithfully: every capability the
\* caller set (error strategy, request validator, response validator,
\* authentication capability, mime handlers, resources, timeout) is in the
\* Endpoint's Config with the same value, and only unset fields get defaults
C28_ConfigClonedFaithfully ==
    [][Registers =>
          LET given == callerConfig'
              clone == endpoint'.Config
          IN  /\ given.ErrorHandler # Nil => clone.ErrorHandler = given.ErrorHandler
              /\ given.RequestValidator # Nil =>
                    clone.RequestValidator = given.RequestValidator
              /\ given.ResponseValidator # Nil =>
                    clone.ResponseValidator = given.ResponseValidator
              /\ (version = 1 /\ given.Auther # Nil) => clone.Auther = given.Auther
              /\ given.MimeTypeHandlers \subseteq clone.MimeTypeHandlers
              /\ clone.Resources = given.Resources
              /\ given.Timeout # 0 => clone.Timeout = given.Timeout]_vars

\* the caller left the error strategy, the mime handlers and the timeout unset
DefaultsLeft ==
    /\ InExecution
    /\ version = 2
    /\ callerConfig.ErrorHandler = Nil
    /\ callerConfig.MimeTypeHandlers = {}
    /\ callerConfig.Timeout = 0

JSONRequest == req.contentType = MimeJSON /\ req.accept = MimeJSON

\* C29: with the error strategy, mime handlers and timeout left unset,
\* NewEndpoint installs the default strategy, a registry that serves
\* application/json and a timeout of 30, and keeps the caller's resources; an
\* application/json request is then never refused for its types, and a handler
\* error is answered with the handler's status and the default strategy's
\* rendering of the error in JSON
C29_DefaultsInstalled ==
    DefaultsLeft =>
        /\ endpoint.Config.ErrorHandler = "default"
        /\ MimeJSON \in endpoint.Config.MimeTypeHandlers
        /\ endpoint.Config.Timeout = 30
        /\ endpoint.Config.Resources = callerConfig.Resources
        /\ (JSONRequest /\ pc # "mime") => responseMimeType = MimeJSON
        /\ (JSONRequest /\ PhaseFailed) => pending.status # StatusUnsupportedMediaType
        /\ (JSONRequest /\ HandlerFailed /\ pc = "done") =>
              /\ httpStatus = pending.status
              /\ responseBody = Encoded(MimeJSON, Format(pending.err))
              /\ contentTypeOut = MimeJSON

\* a handler's 422 on a default endpoint, answered in JSON with the message
C29_Witness ==
    /\ DefaultsLeft
    /\ JSONRequest
    /\ HandlerFailed
    /\ pc = "done"
    /\ httpStatus = StatusUnprocessableEntity
    /\ responseBody = Encoded(MimeJSON, {"handler error"})

\* a default endpoint answers an application/json request with the handler's 200
\* and the encoded response body
C29_SuccessWitness ==
    /\ DefaultsLeft
    /\ JSONRequest
    /\ pc = "done"
    /\ pending = NoPending
    /\ panicSite = ""
    /\ httpStatus = StatusOK
    /\ responseBody = Encoded(MimeJSON, {"response"})

-----------------------------------------------------------------------------
(* Properties of concurrent calls, over SpecConcurrent *)

CallAt(c) == concurrent.at[c]

-----------------------------------------------------------------------------
(* Properties of the order of the phases, over Spec *)

\* the place of a collaborator call in the stated order of the phases: binding,
\* authentication, decode, request validation, handler, encode, response
\* validation, ETag; 0 for the calls of the error responder
PhaseRank(name) ==
    CASE name = "allocateHandler" -> 1
      [] name = "setResources" -> 2
      [] name = "setPathParameters" -> 3
      [] name = "setQueryParameters" -> 4
      [] name \in {"Auth", "Authorization"} -> 5
      [] name = "Unmarshal" -> 6
      [] name = "ValidateRequest" -> 7
      [] name = "Handle" -> 8
      [] name = "Marshal" -> 9
      [] name = "ValidateResponse" -> 10
      [] name = "HandleETag" -> 11
      [] OTHER -> 0

\* the calls made before the error responder was first asked
PhaseCalls ==
    LET failed == {i \in 1..Len(calls) : calls[i] = "HandleError"}
    IN  IF failed = {} THEN calls
        ELSE SubSeq(calls, 1, (CHOOSE i \in failed : \A j \in failed : i <= j) - 1)

\* the phases before the handler have all run and succeeded
ReadyForHandler ==
    LET hd == endpoint.handlerData
    IN  /\ pending = NoPending \/ Called("Handle")
        /\ Called("setQueryParameters")
        /\ Authorizer(version, hd, endpoint.Config) # Nil =>
              (Called("Auth") \/ Called("Authorization"))
        /\ hd.hasRequestBody => Called("Unmarshal")
        /\ (endpoint.Config.RequestValidator # Nil /\ hd.shouldValidateRequest) =>
              Called("ValidateRequest")

\* C32: in every execution the phases call their collaborators in the order
\* binding, authentication, request decode, request validation, handler, response
\* encode, response validation, ETag, each at most once, and the handler is
\* called only after binding, authentication, decode and request validation have
\* succeeded
C32_PhaseOrder ==
    InExecution =>
        /\ \A i, j \in 1..Len(PhaseCalls) :
              i < j => PhaseRank(PhaseCalls[i]) < PhaseRank(PhaseCalls[j])
        /\ Called("Handle") => ReadyForHandler

\* every phase before the ETag handling has succeeded: none has failed or
\* panicked
PhasesSucceeded == pending = NoPending /\ panicValue = "" /\ pc \in {"etag", "done"}

\* C33: HandleETag is called exactly when the handler enables caching and every
\* earlier phase succeeded; it is given the status and the encoded body the
\* phases left and its result is what Execute returns; a response of the error
\* responder never passes through it, and without caching enabled no ETag or
\* Cache-Control response header is set
C33_ETagWhenCachingSucceeds ==
    /\ [](InExecution =>
            /\ Called("HandleETag") =>
                  (endpoint.handlerData.eTagEnabled /\ PhasesSucceeded /\ pc = "done")
            /\ (pc = "done" /\ PhasesSucceeded /\ endpoint.handlerData.eTagEnabled) =>
                  Called("HandleETag")
            /\ (pending # NoPending \/ panicValue # "") => ~Called("HandleETag")
            /\ ~endpoint.handlerData.eTagEnabled =>
                  headersOut \cap {"ETag", "Cache-Control"} = {}
            /\ pc = "etag" =>
                  \/ responseBody = Encoded(responseMimeType, {"response"})
                  \/ responseBody = NilBody /\ encoded \in {"", "null"})
    /\ [][(pc = "etag" /\ pc' # "etag") =>
            \E inm \in ETagHeaders, im \in ETagHeaders, cc \in {<<>>, <<noCache>>} :
                LET r == HandleETag(inm, im, cc, endpoint.handlerData.maxAgeSeconds,
                                    httpStatus, responseBody)
                IN  /\ httpStatus' = r.status
                    /\ responseBody' = r.body
                    /\ headersOut' = headersOut \cup HeaderNames(r.headers)
                    /\ pc' = "done"]_vars

\* a caching handler's encoded response went through HandleETag, which answered
\* 304 and set both headers
C33_Witness ==
    /\ pc = "done"
    /\ endpoint.handlerData.eTagEnabled
    /\ PhasesSucceeded
    /\ Called("Marshal")
    /\ Called("HandleETag")
    /\ httpStatus = StatusNotModified
    /\ {"ETag", "Cache-Control"} \subseteq headersOut

-----------------------------------------------------------------------------
(* Properties of cancellation around the handler, over Spec *)

\* the request-timeout error was handed to the error responder after the handler
\* had been called
TimedOutAfterHandler ==
    PhaseFailed /\ pending.err = ErrRequestTimeout(version) /\ Called("Handle")

\* C37: a handler error is answered from the handler's own status and error, also
\* when the context is cancelled or expired by then; 408 follows a called handler
\* only from the poll before the response body, which is reached with a nil error
\* only, and then the response body is neither encoded nor validated
C37_HandlerErrorBeforeTimeout ==
    /\ [](HandlerFailed =>
            /\ pending.status \in HandleErrStatuses
            /\ pending.status # StatusRequestTimeout
            /\ ReturnsResponderResult)
    /\ [][(pc = "response" /\ ~ShouldContinue(ctxErr)) =>
            /\ pc' = "error"
            /\ pending' = [status |-> StatusRequestTimeout,
                           err |-> ErrRequestTimeout(version)]
            /\ calls' = calls
            /\ encoded' = ""]_vars
    /\ [][(Called("Handle") /\ pending'.err = ErrRequestTimeout(version)
           /\ pending.err # ErrRequestTimeout(version)) => pc = "response"]_vars
    /\ [](TimedOutAfterHandler =>
            /\ encoded = ""
            /\ responseFailure = NoErr
            /\ ~Called("ValidateResponse")
            /\ \A i \in 1..Len(PhaseCalls) : PhaseCalls[i] # "Marshal"
            /\ ReturnsResponderResult)

\* the handler refused with 422, the context was cancelled before Execute
\* returned, and the response is the handler's
C37_Witness ==
    /\ pc = "done"
    /\ HandlerFailed
    /\ ctxErr # Nil
    /\ Called("Handle")
    /\ ResponderKeepsStatus
    /\ httpStatus = StatusUnprocessableEntity

\* the handler returned a nil error, the context was done at the poll that
\* follows, and 408 was answered without encoding the response body
C37_TimeoutWitness ==
    /\ pc = "done"
    /\ TimedOutAfterHandler
    /\ endpoint.handlerData.hasResponseBody
    /\ ResponderKeepsStatus
    /\ httpStatus = StatusRequestTimeout

\* the authentication capability is called in this step
AuthCalled == pc = "auth" /\ calls' # calls

\* C38: authentication is decided by the error alone: the step that calls the
\* capability stops the request only with the capability's error, and with a nil
\* error goes on to the next phase whatever the status, 401 included; a status
\* returned with a nil error is not the status of the response
C38_AuthDecidedByError ==
    /\ [][AuthCalled =>
            \/ /\ pc' = "error"
               /\ pending'.err = NewErr("unauthorized")
               /\ authStatus' = 0
            \/ pc' = "recover" /\ authStatus' = 0
            \/ /\ pc' = PhaseAfter(version, "auth")
               /\ pending' = NoPending
               /\ authStatus' \in AuthOkStatuses]_vars
    /\ [](authStatus # 0 => Called(IF version = 1 THEN "Auth" ELSE "Authorization"))
    /\ []((pc = "done" /\ authStatus \in AuthErrStatuses) => httpStatus # authStatus)

\* the capability returned 401 with a nil error; the handler ran and its 200 was
\* returned
C38_Witness ==
    /\ version = 2
    /\ pc = "done"
    /\ authStatus = 401
    /\ Called("Authorization")
    /\ Called("Handle")
    /\ pending = NoPending
    /\ httpStatus = StatusOK

-----------------------------------------------------------------------------
(* Termination of Execute, over Spec *)

\* the steps of Execute itself
ExecuteStep ==
    \/ NegotiateMimeTypes
    \/ BindHandler
    \/ Authentication
    \/ HandleRequestBody
    \/ RunHandler
    \/ HandleResponseBody
    \/ HandleETagPhase
    \/ ProcessErrorResponse
    \/ Recover

\* how far an execution has got: the phases in their order, then the error
\* responder, the recover function and the error responder called from it
Progress ==
    CASE pc = "mime" -> 1
      [] pc \in {"bind", "auth"} -> IF pc = PhaseAfter(version, "mime") THEN 2 ELSE 3
      [] pc = "request" -> 4
      [] pc = "handle" -> 5
      [] pc = "response" -> 6
      [] pc = "etag" -> 7
      [] pc = "error" -> IF inRecover THEN 10 ELSE 8
      [] pc = "recover" -> 9
      [] pc \in {"done", "crashed"} -> 11
      [] OTHER -> 0

\* C39: every Execute call ends with one (status, body) result when each
\* collaborator call returns or panics: each step of the call takes it further
\* (no loop), a step is possible wherever it stands, cancelled or not (no wait),
\* and the call ends by returning its result
C39_ExecuteReturns ==
    /\ [][InFlight => (pc' = pc \/ Progress' > Progress)]_vars
    /\ [](InFlight => ENABLED ExecuteStep)
    /\ [][(InFlight /\ ~InFlight') =>
            /\ pc' = "done"
            /\ httpStatus' # 0]_vars

-----------------------------------------------------------------------------
(* Properties of the Config after registration, over Spec *)

\* C34: once NewEndpoint has returned, no step of an Execute call changes the
\* Endpoint's Config, and a change the caller makes to the Config or the maps it
\* passed in does not change it either
C34_ConfigImmutable ==
    [][endpoint.registered =>
          /\ InFlight => endpoint'.Config = endpoint.Config
          /\ callerConfig' # callerConfig => endpoint'.Config = endpoint.Config]_vars

-----------------------------------------------------------------------------
(* Properties of the context of an invocation, over SpecLambda *)

\* the CancelFunc of the context was called, or its timer fired, or the parent
\* was done: how many of these have happened
CancelTriggers ==
    lambda.watcherCancels + lambda.cancelCalls
    + (IF lambda.timer = "fired" THEN 1 ELSE 0)
    + (IF lambda.parentErr # Nil /\ lambda.run # "entry" THEN 1 ELSE 0)

C36_WatcherTerminates ==
    /\ (lambda.watcher = "blocked") ~> (lambda.watcher = "exited")
    /\ [](lambda.watcher = "exited" => (lambda.doneClosed /\ lambda.watcherCancels = 1))
    /\ [](lambda.watcher # "exited" => lambda.watcherCancels = 0)
    /\ [][lambda.watcher = "exited" => lambda'.watcher = "exited"]_vars

\* the runner returned before the deadline; the timer fired later and the task
\* ended
C36_Witness ==
    /\ lambda.entry = "lambda"
    /\ lambda.run = "returned"
    /\ ~lambda.timedOut
    /\ lambda.timer = "fired"
    /\ lambda.watcher = "exited"
    /\ lambda.watcherCancels = 1

====
